---- MODULE Spec2Model ----
(***************************************************************************)
(* git-sync: a daemon that periodically synchronises configured git        *)
(* repositories.  The module models                                        *)
(*   - the configuration records and ConfigWatcher.validateConfig,         *)
(*   - GitOperations.SyncRepository with the branch-switch protocol        *)
(*     (specification GitSpec),                                            *)
(*   - Daemon / Scheduler / SyncManager / ConfigWatcher as communicating   *)
(*     threads (specifications Spec and FairSpec).                         *)
(***************************************************************************)
EXTENDS Integers, Sequences, FiniteSets, TLC

VARIABLES
    \* ---- SyncEngine (GitOperations), one attempt on one working tree ----
    grepo,      \* the RepoConfig the attempt runs with
    gbranch,    \* branch checked out in the working tree
    gdirty,     \* working tree has uncommitted changes
    glocal,     \* local branches (refs/heads/*)
    gremote,    \* remote-tracking branches (refs/remotes/<remote>/*)
    gctx,       \* ctx.Done() is closed
    gpc,        \* position of the attempt inside SyncRepository
    gphase,     \* sub-protocol in progress: "none", "pull" or "push"
    gorig,      \* currentBranch recorded by withBranchSwitch
    gswitched,  \* the deferred switch-back of withBranchSwitch is registered
    goperr,     \* result of operation() awaiting the deferred switch-back
    gerr,       \* error returned by SyncRepository (<<>> is nil)
    glog,       \* git calls that touch the tree or the remote, in order
    ginit,      \* the working tree as it was when the attempt started
    genvfail,   \* an environment failure (open, status, head, ctx) happened
    gres,       \* what the remote operation of the current sub-protocol answered
    gsub,       \* the sub-protocols run so far: phase, answer, returned error
    \* ---- Daemon, Scheduler, SyncManager, ConfigWatcher ----
    file,       \* content of the configuration file
    inputs,     \* external inputs so far: file modifications and signals
    wevents,    \* file-change events not yet handed to the OnConfigChange callback
    sigChan,    \* Daemon.Run's signal channel (buffer of 1)
    ctx,        \* d.ctx is cancelled
    dconfig,    \* d.config
    dmu,        \* holder of d.mu
    cwCurrent,  \* ConfigWatcher.currentConfig
    cwLast,     \* less than debounceDelay has passed since ConfigWatcher.lastChange
    cwStopped,  \* StopWatching has replaced the callback
    cwLog,      \* what the callback logged for the last event
    scheds,     \* the Scheduler objects created so far; d.scheduler is the last
    gates,      \* the SyncManager semaphores created so far; d.syncManager is the last
    task,       \* the per-repository goroutines, by <<scheduler, entry index>>
    pc,         \* position of the main, watcher and shutdown threads
    rnew,       \* the configuration a thread is applying in reloadConfig
    starget,    \* the scheduler a thread is stopping
    result,     \* what Daemon.Run returned
    historyManager, \* d.historyManager: "nil" when NewHistoryManager failed
    outcome,    \* the last performSync: its error, log line and RecordSync call
    \* ---- HistoryStore (HistoryManager), shared by several processes ----
    hino,       \* the files (inodes) of the cache directory: their content
    hdir,       \* the directory: history.jsonl, .old and .tmp to inode (0: absent)
    hflock,     \* holder of the advisory lock on .history.lock
    hmu,        \* holder of hm.mu, per process
    hpc,        \* position of each thread inside RecordSync / CleanOldEntries
    hfd,        \* the inode a thread has open for writing (0: none)
    hcur,       \* the entry a thread is appending (its id, 0: none)
    hent,       \* validEntries a thread is rewriting the file with
    hbefore,    \* the entries getAllEntries returned to a thread
    hnid,       \* id of the next entry
    hops,       \* operations started so far
    htorn,      \* entries whose write was cut short by an error or a crash
    hhist       \* bookkeeping: entries appended, rotations and rewrites done

gvars == <<grepo, gbranch, gdirty, glocal, gremote, gctx, gpc, gphase, gorig,
           gswitched, goperr, gerr, glog, ginit, genvfail, gres, gsub>>

dvars == <<file, inputs, wevents, sigChan, ctx, dconfig, dmu, cwCurrent,
           cwLast, cwStopped, cwLog, scheds, gates, task, pc, rnew, starget, result,
           historyManager, outcome>>

hvars == <<hino, hdir, hflock, hmu, hpc, hfd, hcur, hent, hbefore, hnid, hops,
           htorn, hhist>>

vars == <<gvars, dvars, hvars>>

-----------------------------------------------------------------------------
(* Configuration records (internal/config/config.go)                       *)

\* RepoConfig
Repo(path, enabled, dir, interval, strategy, target, safety, force) ==
    [Path |-> path, Enabled |-> enabled, Direction |-> dir,
     Interval |-> interval, Remote |-> "origin", BranchStrategy |-> strategy,
     TargetBranch |-> target, SafetyChecks |-> safety, ForcePush |-> force]

\* Config
Cfg(defInterval, maxSyncs, repos) ==
    [Global |-> [DefaultInterval |-> defInterval, MaxConcurrentSyncs |-> maxSyncs],
     Repositories |-> repos]

\* cmd/init.go: the directions and intervals `git sync init` writes
isValidDirection(dir) == dir \in {"push", "pull", "both"}

MinInterval == 30
MaxInterval == 86400

validateConfigCombination(interval) ==
    ~(interval < MinInterval) /\ ~(interval > MaxInterval)

\* ConfigWatcher.validateConfig, one repository entry
RepoEntryValid(repo) ==
    /\ repo.Path # ""
    /\ ~(repo.Interval < 0)
    /\ ~(repo.Direction # "push" /\ repo.Direction # "pull" /\ repo.Direction # "sync")

\* ConfigWatcher.validateConfig: TRUE iff it returns nil
validateConfig(config) ==
    /\ ~(config.Global.DefaultInterval <= 0)
    /\ ~(config.Global.MaxConcurrentSyncs <= 0)
    /\ \A i \in 1..Len(config.Repositories) : RepoEntryValid(config.Repositories[i])

-----------------------------------------------------------------------------
(* SyncEngine: GitOperations.SyncRepository                                *)

NoErr == <<>>
ErrCtx == <<"context canceled">>
ErrOpen == <<"failed to open repository">>
ErrStatus == <<"failed to get worktree status">>
ErrHead == <<"failed to get current branch">>
ErrUncommitted == <<"repository has uncommitted changes, skipping sync">>
ErrCannotSwitch == <<"cannot switch branches due to uncommitted changes">>
ErrRemoteBranch == <<"failed to find remote branch">>
ErrCreateBranch == <<"failed to create and checkout branch">>
ErrPush == <<"git push failed">>
ErrPull == <<"git pull failed">>
ErrFetch == <<"git fetch failed">>
ErrDirection == <<"invalid direction">>
ErrStrategy == <<"invalid branch strategy">>

\* fmt.Errorf("pull failed: %w", err)
WrapPull(err) == <<"pull failed">> \o err

\* the switch of SyncRepository: the sub-protocol a direction starts with
DispatchFirst(dir) ==
    CASE dir = "push" -> "push"
      [] dir = "pull" -> "pull"
      [] dir = "both" -> "pull"
      [] OTHER -> "invalid"

\* performSafetyChecks: the dirty tree aborts the attempt
SafetyAborts(repo, dirty) == dirty /\ ~repo.ForcePush

\* withBranchSwitch: the dirty tree forbids the checkout
WbsDirtyAbortsUnlessForced(repo, dirty) == dirty /\ ~repo.ForcePush

WbsDirtyAborts(repo, dirty) == dirty

\* withBranchSwitch: the deferred switch-back runs once the checkout succeeded
RestoreRunsOnSuccessOnly(switched, operr) == switched /\ operr = NoErr

RestoreRuns(switched, operr) == switched

\* withBranchSwitch returns operation()'s result; the deferred function only
\* logs the result of the switch-back
WbsResultRestoreCounts(operr, restored) ==
    IF restored THEN operr ELSE <<"failed to switch back to original branch">>

WbsResult(operr, restored) == operr

\* getRefSpecs: the strategies it knows
RefSpecKnown(strategy) == strategy \in {"current", "main", "all"}


\* gitPull: results of w.Pull that count as success
PullErr(res) == IF res \in {"ok", "uptodate", "empty"} THEN NoErr ELSE ErrPull

\* gitPullSpecificBranch: results of w.Pull that count as success
SpecificPullErr(res) == IF res \in {"ok", "uptodate"} THEN NoErr ELSE ErrPull

\* gitFetch: results of r.Fetch that count as success
FetchErr(res) == IF res \in {"ok", "uptodate"} THEN NoErr ELSE ErrFetch

\* gitPush, gitPushSpecificBranch: results of r.Push that count as success
PushErr(res) == IF res \in {"ok", "uptodate"} THEN NoErr ELSE ErrPush

PullResults == {"ok", "uptodate", "empty", "fail"}
PushResults == {"ok", "uptodate", "fail"}

Branches == {"main", "develop"}
GitDirections == {"push", "pull", "both", "sync"}
\* "mirror" stands for a strategy tag the program does not know
GitStrategies == {"current", "main", "all", "specific", "mirror"}

\* the repository entries an attempt is run with
GitRepos ==
    {Repo("/r", TRUE, d, 30, s, IF s = "specific" THEN "develop" ELSE "", sc, fp) :
        d \in GitDirections, s \in GitStrategies, sc \in BOOLEAN, fp \in BOOLEAN}

GitCall(op, branch, ok) == [op |-> op, branch |-> branch, ok |-> ok]

GitIdle ==
    /\ grepo = Repo("/r", TRUE, "push", 30, "current", "", TRUE, FALSE)
    /\ gbranch = "main" /\ gdirty = FALSE
    /\ glocal = {"main"} /\ gremote = {}
    /\ gctx = FALSE /\ gpc = "idle" /\ gphase = "none" /\ gorig = ""
    /\ gswitched = FALSE /\ goperr = NoErr /\ gerr = NoErr /\ glog = <<>>
    /\ ginit = [branch |-> "main", dirty |-> FALSE]
    /\ genvfail = FALSE
    /\ gres = "none" /\ gsub = <<>>

GitInit ==
    /\ grepo \in GitRepos
    /\ gbranch \in Branches
    /\ gdirty \in BOOLEAN
    /\ glocal \in {L \in SUBSET Branches : gbranch \in L}
    /\ gremote \in SUBSET Branches
    /\ gctx = FALSE /\ gpc = "start" /\ gphase = "none" /\ gorig = ""
    /\ gswitched = FALSE /\ goperr = NoErr /\ gerr = NoErr /\ glog = <<>>
    /\ ginit = [branch |-> gbranch, dirty |-> gdirty]
    /\ genvfail = FALSE
    /\ gres = "none" /\ gsub = <<>>

\* SyncRepository returns err
GitReturn(err) ==
    /\ gpc' = "done"
    /\ gphase' = "none"
    /\ gerr' = err

\* SyncRepository, case "both": gitPush is called when gitPull returned nil
PushAfterPullAlways(err) == TRUE

PushAfterPull(err) == err = NoErr

\* gitPull / gitPush returns err to the switch of SyncRepository
GitFinishPhase(err) ==
    /\ gsub' = Append(gsub, [phase |-> gphase, res |-> gres', err |-> err])
    /\ IF gphase = "pull" /\ grepo.Direction = "both"
       THEN IF PushAfterPull(err)
            THEN gpc' = "push" /\ gphase' = "push" /\ gerr' = gerr
            ELSE GitReturn(WrapPull(err))
       ELSE GitReturn(err)

\* the shared cancellation signal is set while the attempt runs
GitCancel ==
    /\ UNCHANGED <<dvars, hvars>>
    /\ gpc \notin {"idle", "done"}
    /\ ~gctx
    /\ gctx' = TRUE
    /\ UNCHANGED <<grepo, gbranch, gdirty, glocal, gremote, gpc, gphase, gorig,
                   gswitched, goperr, gerr, glog, ginit, genvfail, gres, gsub>>

\* SyncRepository: ctx check, PlainOpen, Worktree
GitOpen ==
    /\ UNCHANGED <<dvars, hvars>>
    /\ gpc = "start"
    /\ \E ok \in BOOLEAN :
        IF gctx \/ ~ok
        THEN /\ GitReturn(IF gctx THEN ErrCtx ELSE ErrOpen)
             /\ genvfail' = TRUE
        ELSE /\ gpc' = IF grepo.SafetyChecks THEN "safety" ELSE "dispatch"
             /\ UNCHANGED <<gphase, gerr, genvfail>>
    /\ UNCHANGED <<grepo, gbranch, gdirty, glocal, gremote, gctx, gorig,
                   gswitched, goperr, glog, ginit, gres, gsub>>

\* performSafetyChecks
GitSafety ==
    /\ UNCHANGED <<dvars, hvars>>
    /\ gpc = "safety"
    /\ \E ok \in BOOLEAN :
        IF gctx \/ ~ok
        THEN /\ GitReturn(IF gctx THEN ErrCtx ELSE ErrStatus)
             /\ genvfail' = TRUE
        ELSE IF SafetyAborts(grepo, gdirty)
        THEN GitReturn(ErrUncommitted) /\ UNCHANGED genvfail
        ELSE gpc' = "dispatch" /\ UNCHANGED <<gphase, gerr, genvfail>>
    /\ UNCHANGED <<grepo, gbranch, gdirty, glocal, gremote, gctx, gorig,
                   gswitched, goperr, glog, ginit, gres, gsub>>

\* SyncRepository: switch repo.Direction
GitDispatch ==
    /\ UNCHANGED <<dvars, hvars>>
    /\ gpc = "dispatch"
    /\ LET first == DispatchFirst(grepo.Direction) IN
        IF first = "invalid"
        THEN GitReturn(ErrDirection)
        ELSE gpc' = first /\ gphase' = first /\ gerr' = gerr
    /\ UNCHANGED <<grepo, gbranch, gdirty, glocal, gremote, gctx, gorig,
                   gswitched, goperr, glog, ginit, genvfail, gres, gsub>>

\* gitPull
GitPull ==
    /\ UNCHANGED <<dvars, hvars>>
    /\ gpc = "pull"
    /\ IF gctx
       THEN gres' = "none" /\ GitFinishPhase(ErrCtx) /\ genvfail' = TRUE /\ glog' = glog
       ELSE IF grepo.BranchStrategy = "specific"
       THEN /\ gpc' = "wbs" /\ gres' = "none"
            /\ UNCHANGED <<gphase, gerr, genvfail, glog, gsub>>
       ELSE IF grepo.BranchStrategy = "all"
       THEN /\ gpc' = "fetch" /\ gres' = "none"
            /\ UNCHANGED <<gphase, gerr, genvfail, glog, gsub>>
       ELSE \E res \in PullResults :
              /\ gres' = res
              /\ glog' = Append(glog, GitCall("pull", gbranch, res # "fail"))
              /\ GitFinishPhase(PullErr(res))
              /\ genvfail' = genvfail
    /\ UNCHANGED <<grepo, gbranch, gdirty, glocal, gremote, gctx, gorig,
                   gswitched, goperr, ginit>>

\* gitFetch
GitFetch ==
    /\ UNCHANGED <<dvars, hvars>>
    /\ gpc = "fetch"
    /\ IF gctx
       THEN gres' = "none" /\ GitFinishPhase(ErrCtx) /\ genvfail' = TRUE /\ glog' = glog
       ELSE \E res \in PullResults :
              /\ gres' = res
              /\ glog' = Append(glog, GitCall("fetch", "*", res # "fail"))
              /\ GitFinishPhase(FetchErr(res))
              /\ genvfail' = genvfail
    /\ UNCHANGED <<grepo, gbranch, gdirty, glocal, gremote, gctx, gorig,
                   gswitched, goperr, ginit>>

\* getRefSpecs(strategy, isPull = false): the branch the push names
PushBranch(strategy, branch) ==
    CASE strategy = "current" -> branch
      [] strategy = "main" -> "main"
      [] OTHER -> "*"

\* gitPush
GitPush ==
    /\ UNCHANGED <<dvars, hvars>>
    /\ gpc = "push"
    /\ IF gctx
       THEN gres' = "none" /\ GitFinishPhase(ErrCtx) /\ genvfail' = TRUE /\ glog' = glog
       ELSE IF grepo.BranchStrategy = "specific"
       THEN /\ gpc' = "wbs" /\ gres' = "none"
            /\ UNCHANGED <<gphase, gerr, genvfail, glog, gsub>>
       ELSE IF ~RefSpecKnown(grepo.BranchStrategy)
       THEN gres' = "none" /\ GitFinishPhase(ErrStrategy) /\ UNCHANGED <<genvfail, glog>>
       ELSE \E headok \in BOOLEAN, res \in PushResults :
              IF grepo.BranchStrategy = "current" /\ ~headok
              THEN /\ gres' = "none" /\ GitFinishPhase(ErrHead)
                   /\ genvfail' = TRUE /\ glog' = glog
              ELSE /\ gres' = res
                   /\ glog' = Append(glog,
                        GitCall("push", PushBranch(grepo.BranchStrategy, gbranch),
                                res # "fail"))
                   /\ GitFinishPhase(PushErr(res))
                   /\ genvfail' = genvfail
    /\ UNCHANGED <<grepo, gbranch, gdirty, glocal, gremote, gctx, gorig,
                   gswitched, goperr, ginit>>


\* withBranchSwitch: ctx check, Worktree, Head, "already on the target branch"
GitWbsHead ==
    /\ UNCHANGED <<dvars, hvars>>
    /\ gpc = "wbs"
    /\ gres' = gres
    /\ \E ok \in BOOLEAN :
        IF gctx \/ ~ok
        THEN /\ GitFinishPhase(IF gctx THEN ErrCtx ELSE ErrHead)
             /\ genvfail' = TRUE
             /\ UNCHANGED <<gorig, gswitched>>
        ELSE /\ gorig' = gbranch
             /\ gswitched' = FALSE
             /\ gpc' = IF gbranch = grepo.TargetBranch THEN "op" ELSE "wbsStatus"
             /\ UNCHANGED <<gphase, gerr, genvfail, gsub>>
    /\ UNCHANGED <<grepo, gbranch, gdirty, glocal, gremote, gctx, goperr, glog, ginit>>

\* withBranchSwitch: Status, the clean-tree check, ctx check before the checkout
GitWbsStatus ==
    /\ UNCHANGED <<dvars, hvars>>
    /\ gpc = "wbsStatus"
    /\ gres' = gres
    /\ \E ok \in BOOLEAN :
        IF ~ok
        THEN GitFinishPhase(ErrStatus) /\ genvfail' = TRUE
        ELSE IF WbsDirtyAborts(grepo, gdirty)
        THEN GitFinishPhase(ErrCannotSwitch) /\ UNCHANGED genvfail
        ELSE IF gctx
        THEN GitFinishPhase(ErrCtx) /\ genvfail' = TRUE
        ELSE gpc' = "checkout" /\ UNCHANGED <<gphase, gerr, genvfail, gsub>>
    /\ UNCHANGED <<grepo, gbranch, gdirty, glocal, gremote, gctx, gorig,
                   gswitched, goperr, glog, ginit>>

\* withBranchSwitch: checkout of the target branch, created from the remote
\* ref when the checkout of the local branch fails
GitCheckout ==
    /\ UNCHANGED <<dvars, hvars>>
    /\ gpc = "checkout"
    /\ gres' = gres
    /\ LET target == grepo.TargetBranch IN
       \E ok1 \in BOOLEAN, ok2 \in BOOLEAN :
        IF target \in glocal /\ ok1
        THEN /\ glog' = Append(glog, GitCall("checkout", target, TRUE))
             /\ gbranch' = target /\ gswitched' = TRUE /\ gpc' = "op"
             /\ UNCHANGED <<glocal, gphase, gerr, gsub>>
        ELSE IF target \notin gremote
        THEN /\ glog' = Append(glog, GitCall("checkout", target, FALSE))
             /\ GitFinishPhase(ErrRemoteBranch)
             /\ UNCHANGED <<gbranch, gswitched, glocal>>
        ELSE IF target \notin glocal /\ ok2
        THEN /\ glog' = glog \o <<GitCall("checkout", target, FALSE),
                                  GitCall("checkout", target, TRUE)>>
             /\ glocal' = glocal \cup {target}
             /\ gbranch' = target /\ gswitched' = TRUE /\ gpc' = "op"
             /\ UNCHANGED <<gphase, gerr, gsub>>
        ELSE /\ glog' = glog \o <<GitCall("checkout", target, FALSE),
                                  GitCall("checkout", target, FALSE)>>
             /\ GitFinishPhase(ErrCreateBranch)
             /\ UNCHANGED <<gbranch, gswitched, glocal>>
    /\ UNCHANGED <<grepo, gdirty, gremote, gctx, gorig, goperr, ginit, genvfail>>

\* the operation closure of gitPushSpecificBranch / gitPullSpecificBranch;
\* with the switch-back deferred, its result waits for the restore
GitOp ==
    /\ UNCHANGED <<dvars, hvars>>
    /\ gpc = "op"
    /\ \E res \in (IF gphase = "push" THEN PushResults ELSE PullResults) :
        LET operr == IF gctx THEN ErrCtx
                     ELSE IF gphase = "push" THEN PushErr(res)
                     ELSE SpecificPullErr(res)
            call == IF gphase = "push"
                    THEN GitCall("push", grepo.TargetBranch, res # "fail")
                    ELSE GitCall("pull", gbranch, res # "fail")
        IN /\ gres' = IF gctx THEN "none" ELSE res
           /\ glog' = IF gctx THEN glog ELSE Append(glog, call)
           /\ genvfail' = (genvfail \/ gctx)
           /\ IF RestoreRuns(gswitched, operr)
              THEN gpc' = "restore" /\ goperr' = operr /\ UNCHANGED <<gphase, gerr, gsub>>
              ELSE GitFinishPhase(operr) /\ goperr' = goperr
    /\ UNCHANGED <<grepo, gbranch, gdirty, glocal, gremote, gctx, gorig,
                   gswitched, ginit>>

\* withBranchSwitch: the deferred checkout of the recorded branch
GitRestore ==
    /\ UNCHANGED <<dvars, hvars>>
    /\ gpc = "restore"
    /\ gres' = gres
    /\ \E ok \in BOOLEAN :
        /\ glog' = Append(glog, GitCall("restore", gorig, ok))
        /\ gbranch' = IF ok THEN gorig ELSE gbranch
        /\ GitFinishPhase(WbsResult(goperr, ok))
    /\ gswitched' = FALSE
    /\ goperr' = NoErr
    /\ UNCHANGED <<grepo, gdirty, glocal, gremote, gctx, gorig, ginit, genvfail>>

GitNext ==
    \/ GitCancel
    \/ GitOpen
    \/ GitSafety
    \/ GitDispatch
    \/ GitPull
    \/ GitFetch
    \/ GitPush
    \/ GitWbsHead
    \/ GitWbsStatus
    \/ GitCheckout
    \/ GitOp
    \/ GitRestore



-----------------------------------------------------------------------------
(* HistoryStore: HistoryManager over history.jsonl, .old, .tmp and the lock *)

MaxOps == 3         \* RecordSync and CleanOldEntries calls started in a run

MaxQuery == 3       \* lines of the history file a GetHistory call starts from

\* hm.maxFileSizeMB, in chunks of a line (a line is written in two chunks)
MaxFileSize == 4

\* hm.retentionDays and the clock, in days
RetentionDays == 1
Now == 1

\* the threads that use the store: two threads of one daemon process and one
\* thread of a second process on the same cache directory
Actors == {"p1a", "p1b", "p2a"}
Procs == {"p1", "p2"}
Proc(a) == IF a = "p2a" THEN "p2" ELSE "p1"

\* Timestamp of an entry: entry 1 was written before the retention window,
\* every other entry at the present time
Timestamp(id) == IF id = 1 THEN 0 ELSE Now

\* SyncHistoryEntry
Entry(id, by) == [id |-> id, by |-> by]

\* json.Marshal(entry) followed by '\n', as the two chunks a write may need
Marshal(e) == <<[id |-> e.id, by |-> e.by, part |-> 1],
                [id |-> e.id, by |-> e.by, part |-> 2]>>

RECURSIVE MarshalAll(_)
MarshalAll(es) ==
    IF es = <<>> THEN <<>> ELSE Marshal(Head(es)) \o MarshalAll(Tail(es))

\* bufio.Scanner: the lines of a file; the newline ends the second chunk
RECURSIVE LinesFrom(_, _, _)
LinesFrom(c, i, cur) ==
    IF i > Len(c) THEN (IF cur = <<>> THEN <<>> ELSE <<cur>>)
    ELSE IF c[i].part = 2
         THEN <<Append(cur, c[i])>> \o LinesFrom(c, i + 1, <<>>)
         ELSE LinesFrom(c, i + 1, Append(cur, c[i]))

Lines(c) == LinesFrom(c, 1, <<>>)

\* json.Unmarshal succeeds on a line
Parses(line) ==
    /\ Len(line) = 2
    /\ line[1].part = 1 /\ line[2].part = 2
    /\ line[1].id = line[2].id /\ line[1].by = line[2].by

RECURSIVE ParseLines(_)
ParseLines(ls) ==
    IF ls = <<>> THEN <<>>
    ELSE (IF Parses(Head(ls)) THEN <<Entry(Head(ls)[1].id, Head(ls)[1].by)>>
          ELSE <<>>) \o ParseLines(Tail(ls))

\* getAllEntries: the entries of the lines that parse, the others are skipped
getAllEntries(c) == ParseLines(Lines(c))

\* the content of a name of the directory (<<>> when absent)
Content(name) == IF hdir[name] = 0 THEN <<>> ELSE hino[hdir[name]]

\* CleanOldEntries: entry.Timestamp.After(cutoff)
Keeps(e) == Timestamp(e.id) > Now - RetentionDays

RECURSIVE validEntries(_)
validEntries(es) ==
    IF es = <<>> THEN <<>>
    ELSE (IF Keeps(Head(es)) THEN <<Head(es)>> ELSE <<>>) \o validEntries(Tail(es))

\* shouldRotateFile: os.Stat fails on an absent file
shouldRotateFile == hdir["hist"] # 0 /\ Len(Content("hist")) > MaxFileSize

\* syscall.Flock(LOCK_EX) blocks while another open file description holds it
CanFlockAlways == TRUE

CanFlock == hflock = "free"

\* rewriteHistoryFile: the rename is reached when the loop has written every entry
RewriteCompleteAlways(written, entries) == TRUE

RewriteComplete(written, entries) == written = Len(entries)

\* the history files a run may start from
InitialFiles == {<<>>,
                 Marshal(Entry(1, "p1a")),
                 Marshal(Entry(2, "p2a")),
                 Marshal(Entry(1, "p1a")) \o Marshal(Entry(2, "p2a"))}

\* what has happened to the store so far: the entries appended completely, those
\* appended since the last rotation, the number of rotations and of rewrites,
\* and the history file just before and just after the last rewrite
\* q is the last GetHistory call: its arguments and what it returned
NoHist == [app |-> {}, since |-> {}, rot |-> 0, clean |-> 0, pre |-> <<>>, post |-> <<>>,
           q |-> <<>>]

HistIdle ==
    /\ hino = <<>> /\ hdir = [hist |-> 0, old |-> 0, tmp |-> 0]
    /\ hflock = "free" /\ hmu = [p \in Procs |-> "free"]
    /\ hpc = [a \in Actors |-> "off"]
    /\ hfd = [a \in Actors |-> 0] /\ hcur = [a \in Actors |-> 0]
    /\ hent = [a \in Actors |-> <<>>] /\ hbefore = [a \in Actors |-> <<>>]
    /\ hnid = 3 /\ hops = 0 /\ htorn = {} /\ hhist = NoHist

\* NewHistoryManager in each process; the cache directory holds an earlier
\* history file or none
HistInit ==
    /\ \E c \in InitialFiles :
        /\ hino = IF c = <<>> THEN <<>> ELSE <<c>>
        /\ hdir = [hist |-> IF c = <<>> THEN 0 ELSE 1, old |-> 0, tmp |-> 0]
        /\ LET ids == {getAllEntries(c)[i].id : i \in 1..Len(getAllEntries(c))}
           IN hhist = [NoHist EXCEPT !.app = ids, !.since = ids]
    /\ hflock = "free" /\ hmu = [p \in Procs |-> "free"]
    /\ hpc = [a \in Actors |-> "idle"]
    /\ hfd = [a \in Actors |-> 0] /\ hcur = [a \in Actors |-> 0]
    /\ hent = [a \in Actors |-> <<>>] /\ hbefore = [a \in Actors |-> <<>>]
    /\ hnid = 3 /\ hops = 0 /\ htorn = {}

\* the inodes after name n is unlinked: the file is freed unless a descriptor
\* of another thread is still open on it
Unlink(n, a) ==
    IF hdir[n] # 0 /\ \A b \in Actors \ {a} : hfd[b] # hdir[n]
    THEN [hino EXCEPT ![hdir[n]] = <<>>]
    ELSE hino

\* deferred hm.mu.Unlock() of RecordSync and CleanOldEntries
HmReturn(a) ==
    /\ hpc' = [hpc EXCEPT ![a] = "idle"]
    /\ hmu' = [hmu EXCEPT ![Proc(a)] = "free"]
    /\ hcur' = [hcur EXCEPT ![a] = 0]
    /\ hent' = [hent EXCEPT ![a] = <<>>]
    /\ hbefore' = [hbefore EXCEPT ![a] = <<>>]

\* RecordSync: hm.mu.Lock() and the entry
RecBegin(a) ==
    /\ hpc[a] = "idle" /\ hops < MaxOps /\ hmu[Proc(a)] = "free"
    /\ hmu' = [hmu EXCEPT ![Proc(a)] = a]
    /\ hpc' = [hpc EXCEPT ![a] = "lock"]
    /\ hcur' = [hcur EXCEPT ![a] = hnid]
    /\ hnid' = hnid + 1 /\ hops' = hops + 1
    /\ UNCHANGED <<hino, hdir, hflock, hfd, hent, hbefore, htorn, hhist>>
    /\ UNCHANGED <<gvars, dvars>>

\* appendEntry: acquireLock, then os.OpenFile with O_CREATE|O_WRONLY|O_APPEND
AppendLock(a) ==
    /\ hpc[a] = "lock" /\ CanFlock
    /\ hflock' = a
    /\ IF hdir["hist"] = 0
       THEN /\ hino' = Append(hino, <<>>)
            /\ hdir' = [hdir EXCEPT !["hist"] = Len(hino) + 1]
            /\ hfd' = [hfd EXCEPT ![a] = Len(hino) + 1]
       ELSE /\ hfd' = [hfd EXCEPT ![a] = hdir["hist"]]
            /\ UNCHANGED <<hino, hdir>>
    /\ hpc' = [hpc EXCEPT ![a] = "write1"]
    /\ UNCHANGED <<hmu, hcur, hent, hbefore, hnid, hops, htorn, hhist>>
    /\ UNCHANGED <<gvars, dvars>>

\* appendEntry: acquireLock or os.OpenFile returns an error; RecordSync logs
\* it and returns
AppendLockFails(a) ==
    /\ hpc[a] = "lock"
    /\ HmReturn(a)
    /\ UNCHANGED <<hino, hdir, hflock, hfd, hnid, hops, htorn, hhist>>
    /\ UNCHANGED <<gvars, dvars>>

\* file.Write: the first part of the line reaches the file
AppendWrite1(a) ==
    /\ hpc[a] = "write1"
    /\ hino' = [hino EXCEPT ![hfd[a]] = Append(@, Marshal(Entry(hcur[a], a))[1])]
    /\ hpc' = [hpc EXCEPT ![a] = "write2"]
    /\ UNCHANGED <<hdir, hflock, hmu, hfd, hcur, hent, hbefore, hnid, hops, htorn, hhist>>
    /\ UNCHANGED <<gvars, dvars>>

\* an appendEntry that releases the lock only when it returns nil
AppendWrite2KeepsLockOnError(a) ==
    /\ hpc[a] = "write2"
    /\ hfd' = [hfd EXCEPT ![a] = 0]
    /\ \/ /\ hino' = [hino EXCEPT ![hfd[a]] = Append(@, Marshal(Entry(hcur[a], a))[2])]
          /\ hhist' = [hhist EXCEPT !.app = @ \cup {hcur[a]}, !.since = @ \cup {hcur[a]}]
          /\ htorn' = htorn
          /\ hflock' = "free"
          /\ \/ /\ hpc' = [hpc EXCEPT ![a] = "check"]
                /\ UNCHANGED <<hmu, hcur, hent, hbefore>>
             \/ HmReturn(a)
       \/ /\ htorn' = htorn \cup {hcur[a]}
          /\ hflock' = hflock
          /\ HmReturn(a)
          /\ UNCHANGED <<hino, hhist>>
    /\ UNCHANGED <<hdir, hnid, hops>>
    /\ UNCHANGED <<gvars, dvars>>

\* file.Write completes and file.Sync; the deferred Close and releaseLock. A
\* write error leaves the line unfinished, and after a write or sync error
\* RecordSync returns without the rotation check
AppendWrite2(a) ==
    /\ hpc[a] = "write2"
    /\ hflock' = "free"
    /\ hfd' = [hfd EXCEPT ![a] = 0]
    /\ \/ /\ hino' = [hino EXCEPT ![hfd[a]] = Append(@, Marshal(Entry(hcur[a], a))[2])]
          /\ hhist' = [hhist EXCEPT !.app = @ \cup {hcur[a]}, !.since = @ \cup {hcur[a]}]
          /\ htorn' = htorn
          /\ \/ /\ hpc' = [hpc EXCEPT ![a] = "check"]
                /\ UNCHANGED <<hmu, hcur, hent, hbefore>>
             \/ HmReturn(a)
       \/ /\ htorn' = htorn \cup {hcur[a]}
          /\ HmReturn(a)
          /\ UNCHANGED <<hino, hhist>>
    /\ UNCHANGED <<hdir, hnid, hops>>
    /\ UNCHANGED <<gvars, dvars>>

\* RecordSync: if hm.shouldRotateFile()
RotateCheck(a) ==
    /\ hpc[a] = "check"
    /\ IF shouldRotateFile
       THEN /\ hpc' = [hpc EXCEPT ![a] = "remove"]
            /\ UNCHANGED <<hmu, hcur, hent, hbefore>>
       ELSE HmReturn(a)
    /\ UNCHANGED <<hino, hdir, hflock, hfd, hnid, hops, htorn, hhist>>
    /\ UNCHANGED <<gvars, dvars>>

\* rotateFile: os.Remove(oldFile); an error other than "not exist" is returned
RotateRemove(a) ==
    /\ hpc[a] = "remove"
    /\ \/ /\ hdir' = [hdir EXCEPT !["old"] = 0]
          /\ hino' = Unlink("old", a)
          /\ hpc' = [hpc EXCEPT ![a] = "rename"]
          /\ UNCHANGED <<hmu, hcur, hent, hbefore>>
       \/ /\ hdir["old"] # 0
          /\ HmReturn(a)
          /\ UNCHANGED <<hdir, hino>>
    /\ UNCHANGED <<hflock, hfd, hnid, hops, htorn, hhist>>
    /\ UNCHANGED <<gvars, dvars>>

\* rotateFile: os.Rename(hm.historyFile, oldFile)
RotateRename(a) ==
    /\ hpc[a] = "rename"
    /\ IF hdir["hist"] = 0
       THEN UNCHANGED <<hdir, hino, hhist>>
       ELSE /\ hdir' = [hdir EXCEPT !["old"] = hdir["hist"], !["hist"] = 0]
            /\ hino' = Unlink("old", a)
            /\ hhist' = [hhist EXCEPT !.since = {}, !.rot = @ + 1]
    /\ HmReturn(a)
    /\ UNCHANGED <<hflock, hfd, hnid, hops, htorn>>
    /\ UNCHANGED <<gvars, dvars>>

\* CleanOldEntries: hm.mu.Lock(), getAllEntries and the filter; it returns when
\* nothing is to be removed
CleanBegin(a) ==
    /\ hpc[a] = "idle" /\ hops < MaxOps /\ hmu[Proc(a)] = "free"
    /\ hops' = hops + 1
    /\ LET entries == getAllEntries(Content("hist"))
           valid == validEntries(entries)
       IN IF Len(valid) = Len(entries)
          THEN UNCHANGED <<hpc, hmu, hent, hbefore>>
          ELSE /\ hpc' = [hpc EXCEPT ![a] = "clock"]
               /\ hmu' = [hmu EXCEPT ![Proc(a)] = a]
               /\ hbefore' = [hbefore EXCEPT ![a] = entries]
               /\ hent' = [hent EXCEPT ![a] = valid]
    /\ UNCHANGED <<hino, hdir, hflock, hfd, hcur, hnid, htorn, hhist>>
    /\ UNCHANGED <<gvars, dvars>>

\* rewriteHistoryFile: acquireLock, then os.Create(tempFile)
CleanLock(a) ==
    /\ hpc[a] = "clock" /\ CanFlock
    /\ hflock' = a
    /\ IF hdir["tmp"] = 0
       THEN /\ hino' = Append(hino, <<>>)
            /\ hdir' = [hdir EXCEPT !["tmp"] = Len(hino) + 1]
            /\ hfd' = [hfd EXCEPT ![a] = Len(hino) + 1]
       ELSE /\ hino' = [hino EXCEPT ![hdir["tmp"]] = <<>>]
            /\ hfd' = [hfd EXCEPT ![a] = hdir["tmp"]]
            /\ hdir' = hdir
    /\ hpc' = [hpc EXCEPT ![a] = "cwrite"]
    /\ hcur' = [hcur EXCEPT ![a] = 0]
    /\ UNCHANGED <<hmu, hent, hbefore, hnid, hops, htorn, hhist>>
    /\ UNCHANGED <<gvars, dvars>>

\* rewriteHistoryFile: acquireLock or os.Create returns an error
CleanLockFails(a) ==
    /\ hpc[a] = "clock"
    /\ HmReturn(a)
    /\ UNCHANGED <<hino, hdir, hflock, hfd, hnid, hops, htorn, hhist>>
    /\ UNCHANGED <<gvars, dvars>>

\* rewriteHistoryFile: one round of the loop; on a write error the temp file is
\* closed and removed
CleanWrite(a) ==
    /\ hpc[a] = "cwrite" /\ hcur[a] < Len(hent[a])
    /\ \/ /\ hino' = [hino EXCEPT ![hfd[a]] = @ \o Marshal(hent[a][hcur[a] + 1])]
          /\ hcur' = [hcur EXCEPT ![a] = @ + 1]
          /\ UNCHANGED <<hdir, hflock, hmu, hpc, hfd, hent, hbefore>>
       \/ /\ hino' = Unlink("tmp", a)
          /\ hdir' = [hdir EXCEPT !["tmp"] = 0]
          /\ hflock' = "free"
          /\ hfd' = [hfd EXCEPT ![a] = 0]
          /\ HmReturn(a)
    /\ UNCHANGED <<hnid, hops, htorn, hhist>>
    /\ UNCHANGED <<gvars, dvars>>

\* rewriteHistoryFile: file.Close and os.Rename(tempFile, hm.historyFile); on an
\* error the temp file is removed
CleanRename(a) ==
    /\ hpc[a] = "cwrite" /\ RewriteComplete(hcur[a], hent[a])
    /\ \/ /\ hdir' = [hdir EXCEPT !["hist"] = hdir["tmp"], !["tmp"] = 0]
          /\ hino' = Unlink("hist", a)
          /\ hhist' = [hhist EXCEPT !.clean = @ + 1, !.pre = Content("hist"),
                                    !.post = hino[hdir["tmp"]]]
       \/ /\ hdir' = [hdir EXCEPT !["tmp"] = 0]
          /\ hino' = Unlink("tmp", a)
          /\ hhist' = hhist
    /\ hflock' = "free"
    /\ hfd' = [hfd EXCEPT ![a] = 0]
    /\ HmReturn(a)
    /\ UNCHANGED <<hnid, hops, htorn>>
    /\ UNCHANGED <<gvars, dvars>>

\* a process is killed while it has a file of the store open: its lock is
\* released by the kernel, what it had written stays
Crash(p) ==
    /\ \E a \in Actors : Proc(a) = p /\ hfd[a] # 0
    /\ hpc' = [a \in Actors |-> IF Proc(a) = p THEN "dead" ELSE hpc[a]]
    /\ hflock' = IF hflock # "free" /\ Proc(hflock) = p THEN "free" ELSE hflock
    /\ hfd' = [a \in Actors |-> IF Proc(a) = p THEN 0 ELSE hfd[a]]
    /\ htorn' = htorn \cup {hcur[a] : a \in {b \in Actors : Proc(b) = p /\ hpc[b] = "write2"}}
    /\ hmu' = [hmu EXCEPT ![p] = "free"]
    /\ hcur' = [a \in Actors |-> IF Proc(a) = p THEN 0 ELSE hcur[a]]
    /\ hent' = [a \in Actors |-> IF Proc(a) = p THEN <<>> ELSE hent[a]]
    /\ hbefore' = [a \in Actors |-> IF Proc(a) = p THEN <<>> ELSE hbefore[a]]
    /\ UNCHANGED <<hino, hdir, hnid, hops, hhist>>
    /\ UNCHANGED <<gvars, dvars>>

\* json.Unmarshal into a SyncHistoryEntry: the thread p1b records the syncs of
\* /b, the other threads those of /a; the entries with an even id are those of
\* failed attempts
Unmarshal(e) ==
    [RepoPath |-> IF e.by = "p1b" THEN "/b" ELSE "/a",
     Status |-> IF e.id % 2 = 0 THEN "failed" ELSE "success",
     Timestamp |-> Timestamp(e.id)]

\* a GetHistory that applies the limit before it sorts
GetHistoryLimitFirst(limit, repoFilter, failedOnly) ==
    LET Match(e) ==
            /\ repoFilter # "" => Unmarshal(e).RepoPath = repoFilter
            /\ failedOnly => Unmarshal(e).Status = "failed"
        found == SelectSeq(getAllEntries(Content("hist")), Match)
        entries == IF limit > 0 /\ Len(found) > limit
                   THEN SubSeq(found, 1, limit) ELSE found
        n == Len(entries)
        Sorted(p) == \A j \in 1..(n - 1) :
                        ~(Unmarshal(entries[p[j + 1]]).Timestamp
                            > Unmarshal(entries[p[j]]).Timestamp)
    IN {[k \in 1..n |-> entries[p[k]]] : p \in {q \in Permutations(1..n) : Sorted(q)}}

\* GetHistory, what it may return: the lines that parse are filtered in file
\* order (an absent file has none), sort.Slice orders them by
\* Timestamp.After, entries of equal time in any order, then the limit is applied
GetHistoryEntries(limit, repoFilter, failedOnly) ==
    LET Match(e) ==
            /\ repoFilter # "" => Unmarshal(e).RepoPath = repoFilter
            /\ failedOnly => Unmarshal(e).Status = "failed"
        entries == SelectSeq(getAllEntries(Content("hist")), Match)
        n == Len(entries)
        Sorted(p) == \A j \in 1..(n - 1) :
                        ~(Unmarshal(entries[p[j + 1]]).Timestamp
                            > Unmarshal(entries[p[j]]).Timestamp)
    IN {IF limit > 0 /\ n > limit THEN SubSeq(s, 1, limit) ELSE s :
            s \in {[k \in 1..n |-> entries[p[k]]] :
                      p \in {q \in Permutations(1..n) : Sorted(q)}}}

\* GetHistory: under hm.mu and the flock the file is opened for reading and
\* scanned; both locks are released when it returns (a run follows one call)
GetHistory(a) ==
    /\ hpc[a] = "idle" /\ hmu[Proc(a)] = "free" /\ CanFlock
    /\ hhist.q = <<>>
    /\ \E limit \in -1..2, repoFilter \in {"", "/a", "/b"}, failedOnly \in BOOLEAN :
        \E res \in GetHistoryEntries(limit, repoFilter, failedOnly) :
            hhist' = [hhist EXCEPT !.q = [limit |-> limit, repoFilter |-> repoFilter,
                                          failedOnly |-> failedOnly, res |-> res]]
    /\ UNCHANGED <<hino, hdir, hflock, hmu, hpc, hfd, hcur, hent, hbefore, hnid,
                   hops, htorn>>
    /\ UNCHANGED <<gvars, dvars>>

HistNext ==
    \/ \E a \in Actors : RecBegin(a)
    \/ \E a \in Actors : AppendLock(a)
    \/ \E a \in Actors : AppendLockFails(a)
    \/ \E a \in Actors : AppendWrite1(a)
    \/ \E a \in Actors : AppendWrite2(a)
    \/ \E a \in Actors : RotateCheck(a)
    \/ \E a \in Actors : RotateRemove(a)
    \/ \E a \in Actors : RotateRename(a)
    \/ \E a \in Actors : CleanBegin(a)
    \/ \E a \in Actors : CleanLock(a)
    \/ \E a \in Actors : CleanLockFails(a)
    \/ \E a \in Actors : CleanWrite(a)
    \/ \E a \in Actors : CleanRename(a)
    \/ \E p \in Procs : Crash(p)

-----------------------------------------------------------------------------
(* Daemon, Scheduler, SyncManager and ConfigWatcher                        *)

MaxInputs == 2      \* external inputs: file modifications and signals

RepoA(dir, interval) == Repo("/a", TRUE, dir, interval, "current", "", TRUE, FALSE)
RepoB(enabled) == Repo("/b", enabled, "pull", 60, "main", "", TRUE, FALSE)

CfgTwo == Cfg(300, 1, <<RepoA("push", 30), RepoB(TRUE)>>)
CfgNone == Cfg(300, 2, <<RepoB(FALSE)>>)
CfgSync == Cfg(300, 1, <<RepoA("sync", 10)>>)
CfgBad == Cfg(300, 0, <<RepoA("push", 30)>>)
\* two enabled entries with one path (validateConfig compares no paths)
CfgDup == Cfg(300, 2, <<RepoA("push", 30), RepoA("pull", 60)>>)

\* what the configuration file may hold
Configs == {CfgTwo, CfgNone, CfgSync, CfgBad}

Threads == {"main", "watcher", "shutdown"}
Reloaders == {"main", "watcher"}

\* where a reloading thread goes back to when reloadConfig returns
Home(th) == IF th = "main" THEN "loop" ELSE "idle"

\* d.scheduler and d.syncManager: the objects created last
CurSched == Len(scheds)

\* NewScheduler
NewSched == [mutex |-> "free", wg |-> 0, tickers |-> {}]

\* NewSyncManager: make(chan struct{}, maxConcurrent)
NewGate(maxConcurrent) == [cap |-> maxConcurrent, held |-> 0]

\* Run / reloadConfig: the enabled entries, by their index in the configuration
Enabled(config) ==
    {i \in 1..Len(config.Repositories) : config.Repositories[i].Enabled}

\* scheduleRepo: the goroutine of one repository, before its initial delay
NewTask(repo) ==
    [repo |-> repo, pc |-> "delay", tick |-> 0, ticking |-> TRUE,
     acq |-> 0, syn |-> 0, late |-> FALSE]

\* Scheduler.Start on scheduler g: one goroutine and one ticker per enabled entry
StartedTasks(g, config) ==
    [t \in {<<g, i>> : i \in Enabled(config)} |->
        NewTask(config.Repositories[t[2]])]

\* s.tickers[repo.Path] = ticker: a later entry with the same path replaces
\* an earlier one
StartedTickers(config) ==
    {<<config.Repositories[i].Path, i>> : i \in
        {j \in Enabled(config) :
            \A k \in Enabled(config) :
                config.Repositories[k].Path = config.Repositories[j].Path => k <= j}}

StartedSched(config) ==
    [mutex |-> "free", wg |-> Cardinality(Enabled(config)),
     tickers |-> StartedTickers(config)]

Live == DOMAIN task

\* no performSync has returned yet
NoOutcome == <<>>

\* what gitOps.SyncRepository may return to performSync: nil or an error
SyncErrors == {NoErr, ErrPull}

\* performSync: status := "success"; if err != nil { status = "failed" }
StatusAlwaysSuccess(err) == "success"

StatusOf(err) == IF err = NoErr THEN "success" ELSE "failed"

\* performSync: the final log line depends on err alone
LogPromoted(err, stored) ==
    IF err = NoErr /\ stored THEN "Sync completed successfully" ELSE "Sync failed"

LogOf(err, stored) ==
    IF err = NoErr THEN "Sync completed successfully" ELSE "Sync failed"

\* scheduleRepo: after performSync the goroutine is back in its loop
LoopAfterStopOnError(err) == IF err = NoErr THEN "wait" ELSE "cleanup"

LoopAfter(err) == "wait"

\* a performSync that records nothing once Stop has stopped the tickers
PerformSyncOutcomeUnlessStopping(repo, err, stored) ==
    IF \E th \in Reloaders : pc[th] = "stopwait" THEN outcome
    ELSE [path |-> repo.Path, direction |-> repo.Direction, err |-> err,
          calls |-> <<"RecordSync">>,
          status |-> StatusOf(err),
          msg |-> IF err = NoErr THEN NoErr ELSE err,
          stored |-> stored,
          log |-> LogOf(err, stored),
          seq |-> IF outcome = NoOutcome THEN 0 ELSE 1 - outcome.seq]

\* performSync with a history manager: err is what SyncRepository returned;
\* RecordSync is called with the path, the status and the error text, stored
\* tells whether it wrote the entry (its errors are logged inside RecordSync);
\* then the final log line. seq tells one call from the next; calls lists the
\* collaborators performSync called: the Scheduler keeps no notification manager
PerformSyncOutcome(repo, err, stored) ==
    [path |-> repo.Path, direction |-> repo.Direction, err |-> err,
     calls |-> <<"RecordSync">>,
     status |-> StatusOf(err),
     msg |-> IF err = NoErr THEN NoErr ELSE err,
     stored |-> stored,
     log |-> LogOf(err, stored),
     seq |-> IF outcome = NoOutcome THEN 0 ELSE 1 - outcome.seq]

DaemonIdle ==
    /\ file = CfgNone /\ inputs = 0 /\ wevents = 0 /\ sigChan = <<>>
    /\ ctx = FALSE /\ dconfig = CfgNone /\ dmu = "free"
    /\ cwCurrent = CfgNone /\ cwLast = FALSE /\ cwStopped = FALSE /\ cwLog = "none"
    /\ scheds = <<NewSched>> /\ gates = <<NewGate(1)>>
    /\ task = <<>>
    /\ pc = [th \in Threads |-> "off"]
    /\ rnew = [th \in Reloaders |-> CfgNone]
    /\ starget = [th \in Threads |-> 1]
    /\ result = "none"
    /\ historyManager = "nil" /\ outcome = NoOutcome

\* NewDaemon and Run up to the signal loop: the configuration is loaded without
\* validation, the scheduler is started for the enabled entries
DaemonInit ==
    /\ file \in Configs
    /\ inputs = 0 /\ wevents = 0 /\ sigChan = <<>>
    /\ ctx = FALSE /\ dconfig = file /\ dmu = "free"
    /\ cwCurrent = file /\ cwLast = FALSE /\ cwStopped = FALSE /\ cwLog = "none"
    /\ scheds = <<StartedSched(file)>>
    /\ gates = <<NewGate(file.Global.MaxConcurrentSyncs)>>
    /\ task = StartedTasks(1, file)
    /\ pc = [th \in Threads |->
                CASE th = "main" -> "loop" [] th = "watcher" -> "idle"
                  [] OTHER -> "none"]
    /\ rnew = [th \in Reloaders |-> file]
    /\ starget = [th \in Threads |-> 1]
    /\ result = "none"
    /\ outcome = NoOutcome

\* Daemon.Run has not returned (the process exits when it does)
Running == pc["main"] # "returned"

\* sm.semaphore <- struct{}{}: the send blocks while the channel is full
CanAcquireAlways(g) == TRUE

CanAcquire(g) == gates[g].held < gates[g].cap

\* s.performSync(repoConfig, sm) is called in the loop's goroutine: the loop
\* is inside the call until it returns
PerformSyncDetached == "wait"

PerformSyncPc == "insync"

\* s.wg.Wait()
StopMayReturnAtOnce(g) == TRUE

StopMayReturn(g) == scheds[g].wg = 0

\* the OnConfigChange callback goes on to apply the configuration
WatcherAppliesAlways(config) == TRUE

WatcherApplies(config) == validateConfig(config)

\* a ticker whose channel queues every tick
TickQueued(t) ==
    /\ Running
    /\ t \in Live
    /\ task[t].ticking /\ task[t].tick < 2
    /\ task' = [task EXCEPT ![t].tick = @ + 1]
    /\ UNCHANGED <<file, inputs, wevents, sigChan, ctx, dconfig, dmu, cwCurrent,
                   cwLast, cwStopped, cwLog, scheds, gates, pc, rnew, starget, result>>
    /\ UNCHANGED <<gvars, hvars, historyManager, outcome>>

\* time.Ticker: a tick is buffered unless one is already waiting (a stopped
\* ticker sends nothing more; its buffered tick stays)
Tick(t) ==
    /\ Running
    /\ t \in Live
    /\ task[t].ticking /\ task[t].tick = 0
    /\ task' = [task EXCEPT ![t].tick = 1]
    /\ UNCHANGED <<file, inputs, wevents, sigChan, ctx, dconfig, dmu, cwCurrent,
                   cwLast, cwStopped, cwLog, scheds, gates, pc, rnew, starget, result>>
    /\ UNCHANGED <<gvars, hvars, historyManager, outcome>>

\* scheduleRepo: case <-initialDelay.C: s.performSync(...). The 10 s timer of a
\* task started after d.cancel() cannot fire while the daemon runs: Run's own
\* 10 s deadline was armed before the cancel and ends the process first
TaskInitialDelay(t) ==
    /\ Running
    /\ t \in Live
    /\ task[t].pc = "delay"
    /\ ~task[t].late
    /\ task' = [task EXCEPT ![t].pc = PerformSyncPc, ![t].acq = @ + 1]
    /\ UNCHANGED <<file, inputs, wevents, sigChan, ctx, dconfig, dmu, cwCurrent,
                   cwLast, cwStopped, cwLog, scheds, gates, pc, rnew, starget, result>>
    /\ UNCHANGED <<gvars, hvars, historyManager, outcome>>

\* scheduleRepo: case <-ticker.C: s.performSync(...)
TaskTick(t) ==
    /\ Running
    /\ t \in Live
    /\ task[t].pc = "wait" /\ task[t].tick = 1
    /\ task' = [task EXCEPT ![t].pc = PerformSyncPc, ![t].tick = 0, ![t].acq = @ + 1]
    /\ UNCHANGED <<file, inputs, wevents, sigChan, ctx, dconfig, dmu, cwCurrent,
                   cwLast, cwStopped, cwLog, scheds, gates, pc, rnew, starget, result>>
    /\ UNCHANGED <<gvars, hvars, historyManager, outcome>>

\* scheduleRepo: case <-ctx.Done(): return (either select)
TaskCancelled(t) ==
    /\ Running
    /\ t \in Live
    /\ task[t].pc \in {"delay", "wait"}
    /\ ctx
    /\ task' = [task EXCEPT ![t].pc = "cleanup"]
    /\ UNCHANGED <<file, inputs, wevents, sigChan, ctx, dconfig, dmu, cwCurrent,
                   cwLast, cwStopped, cwLog, scheds, gates, pc, rnew, starget, result>>
    /\ UNCHANGED <<gvars, hvars, historyManager, outcome>>

\* SyncManager.SyncRepository: the permit is acquired, gitOps.SyncRepository starts
TaskAcquire(t) ==
    /\ Running
    /\ t \in Live
    /\ task[t].acq > 0
    /\ CanAcquire(t[1])
    /\ task' = [task EXCEPT ![t].acq = @ - 1, ![t].syn = @ + 1]
    /\ gates' = [gates EXCEPT ![t[1]].held = @ + 1]
    /\ UNCHANGED <<file, inputs, wevents, sigChan, ctx, dconfig, dmu, cwCurrent,
                   cwLast, cwStopped, cwLog, scheds, pc, rnew, starget, result>>
    /\ UNCHANGED <<gvars, hvars, historyManager, outcome>>

\* a SyncRepository whose permit is given back only when the sync returned nil
TaskSyncReturnKeepsPermitOnError(t) ==
    /\ Running
    /\ t \in Live
    /\ task[t].syn > 0
    /\ \E err \in SyncErrors, stored \in BOOLEAN :
        /\ task' = [task EXCEPT ![t].syn = @ - 1,
                                ![t].pc = IF @ = "insync" THEN LoopAfter(err) ELSE @]
        /\ outcome' = IF historyManager = "nil" THEN outcome
                       ELSE PerformSyncOutcome(task[t].repo, err, stored)
        /\ gates' = IF err = NoErr THEN [gates EXCEPT ![t[1]].held = @ - 1] ELSE gates
    /\ UNCHANGED <<file, inputs, wevents, sigChan, ctx, dconfig, dmu, cwCurrent,
                   cwLast, cwStopped, cwLog, scheds, pc, rnew, starget, result>>
    /\ UNCHANGED <<gvars, hvars, historyManager>>

\* gitOps.SyncRepository returns, the deferred receive releases the permit,
\* performSync records the outcome and returns to the loop
TaskSyncReturn(t) ==
    /\ Running
    /\ t \in Live
    /\ task[t].syn > 0
    /\ \E err \in SyncErrors, stored \in BOOLEAN :
        /\ task' = [task EXCEPT ![t].syn = @ - 1,
                                ![t].pc = IF @ = "insync" THEN LoopAfter(err) ELSE @]
        /\ outcome' = IF historyManager = "nil" THEN outcome
                       ELSE PerformSyncOutcome(task[t].repo, err, stored)
    /\ gates' = [gates EXCEPT ![t[1]].held = @ - 1]
    /\ UNCHANGED <<file, inputs, wevents, sigChan, ctx, dconfig, dmu, cwCurrent,
                   cwLast, cwStopped, cwLog, scheds, pc, rnew, starget, result>>
    /\ UNCHANGED <<gvars, hvars, historyManager>>

\* the goroutine's deferred functions: under s.mutex stop and delete the
\* ticker registered for the path, then wg.Done()
TaskCleanup(t) ==
    /\ Running
    /\ t \in Live
    /\ task[t].pc = "cleanup"
    /\ scheds[t[1]].mutex = "free"
    /\ LET g == t[1]
           mine == {e \in scheds[g].tickers : e[1] = task[t].repo.Path}
           stopped == {<<g, e[2]>> : e \in mine}
       IN /\ scheds' = [scheds EXCEPT ![g].tickers = @ \ mine, ![g].wg = @ - 1]
          /\ task' = [u \in Live |->
                        IF u = t THEN [task[u] EXCEPT !.pc = "done",
                                          !.ticking = IF u \in stopped THEN FALSE ELSE @]
                        ELSE IF u \in stopped THEN [task[u] EXCEPT !.ticking = FALSE]
                        ELSE task[u]]
    /\ UNCHANGED <<file, inputs, wevents, sigChan, ctx, dconfig, dmu, cwCurrent,
                   cwLast, cwStopped, cwLog, gates, pc, rnew, starget, result>>
    /\ UNCHANGED <<gvars, hvars, historyManager, outcome>>

\* the configuration file is rewritten; a save raises one or two change events
EditFile(c) ==
    /\ Running
    /\ inputs < MaxInputs
    /\ c \in Configs /\ c # file
    /\ file' = c
    /\ inputs' = inputs + 1
    /\ \E n \in {1, 2} : wevents' = wevents + n
    /\ UNCHANGED <<sigChan, ctx, dconfig, dmu, cwCurrent, cwLast, cwStopped,
                   cwLog, scheds, gates, task, pc, rnew, starget, result>>
    /\ UNCHANGED <<gvars, hvars, historyManager, outcome>>

\* a change event after StopWatching: the callback is the empty function
WatcherIgnored ==
    /\ Running
    /\ pc["watcher"] = "idle" /\ wevents > 0
    /\ cwStopped
    /\ wevents' = wevents - 1
    /\ UNCHANGED <<file, inputs, sigChan, ctx, dconfig, dmu, cwCurrent, cwLast,
                   cwStopped, cwLog, scheds, gates, task, pc, rnew, starget, result>>
    /\ UNCHANGED <<gvars, hvars, historyManager, outcome>>

\* OnConfigChange callback: now.Sub(cw.lastChange) < cw.debounceDelay
WatcherDebounced ==
    /\ Running
    /\ pc["watcher"] = "idle" /\ wevents > 0
    /\ ~cwStopped
    /\ cwLast
    /\ wevents' = wevents - 1
    /\ UNCHANGED <<file, inputs, sigChan, ctx, dconfig, dmu, cwCurrent, cwLast,
                   cwStopped, cwLog, scheds, gates, task, pc, rnew, starget, result>>
    /\ UNCHANGED <<gvars, hvars, historyManager, outcome>>

\* cw.debounceDelay (500ms) has passed since cw.lastChange
DebounceElapsed ==
    /\ Running
    /\ ~cwStopped
    /\ cwLast
    /\ pc["watcher"] = "idle"
    /\ cwLast' = FALSE
    /\ UNCHANGED <<file, inputs, wevents, sigChan, ctx, dconfig, dmu, cwCurrent,
                   cwStopped, cwLog, scheds, gates, task, pc, rnew, starget, result>>
    /\ UNCHANGED <<gvars, hvars, historyManager, outcome>>

\* OnConfigChange callback past the debounce: the file content is unmarshalled
\* and validated; an invalid configuration is logged and dropped, a valid one
\* becomes currentConfig and is handed to onChange (Daemon.reloadConfig)
WatcherEvent ==
    /\ Running
    /\ pc["watcher"] = "idle" /\ wevents > 0
    /\ ~cwStopped
    /\ wevents' = wevents - 1
    /\ cwLast' = TRUE
    /\ IF WatcherApplies(file)
       THEN /\ cwCurrent' = file
            /\ rnew' = [rnew EXCEPT !["watcher"] = file]
            /\ pc' = [pc EXCEPT !["watcher"] = "r_lock"]
            /\ cwLog' = "changed"
       ELSE /\ cwLog' = "invalid"
            /\ UNCHANGED <<cwCurrent, rnew, pc>>
    /\ UNCHANGED <<file, inputs, sigChan, ctx, dconfig, dmu, cwStopped,
                   scheds, gates, task, starget, result>>
    /\ UNCHANGED <<gvars, hvars, historyManager, outcome>>

\* a signal reaches the process; signal.Notify drops it when sigChan is full
SendSignal(sig) ==
    /\ Running
    /\ inputs < MaxInputs
    /\ inputs' = inputs + 1
    /\ sigChan' = IF Len(sigChan) < 1 THEN Append(sigChan, sig) ELSE sigChan
    /\ UNCHANGED <<file, wevents, ctx, dconfig, dmu, cwCurrent, cwLast,
                   cwStopped, cwLog, scheds, gates, task, pc, rnew, starget, result>>
    /\ UNCHANGED <<gvars, hvars, historyManager, outcome>>

\* Run: case SIGHUP: reloadConfigFromSignal loads the file and calls reloadConfig
MainSighup ==
    /\ pc["main"] = "loop"
    /\ sigChan # <<>> /\ Head(sigChan) = "HUP"
    /\ sigChan' = Tail(sigChan)
    /\ rnew' = [rnew EXCEPT !["main"] = file]
    /\ pc' = [pc EXCEPT !["main"] = "r_lock"]
    /\ UNCHANGED <<file, inputs, wevents, ctx, dconfig, dmu, cwCurrent, cwLast,
                   cwStopped, cwLog, scheds, gates, task, starget, result>>
    /\ UNCHANGED <<gvars, hvars, historyManager, outcome>>

\* Run: case SIGINT, SIGTERM: shutdown() is started in a goroutine
MainShutdownSignal ==
    /\ pc["main"] = "loop"
    /\ sigChan # <<>> /\ Head(sigChan) = "TERM"
    /\ sigChan' = Tail(sigChan)
    /\ pc' = [pc EXCEPT !["main"] = "shutwait", !["shutdown"] = "begin"]
    /\ UNCHANGED <<file, inputs, wevents, ctx, dconfig, dmu, cwCurrent, cwLast,
                   cwStopped, cwLog, scheds, gates, task, rnew, starget, result>>
    /\ UNCHANGED <<gvars, hvars, historyManager, outcome>>

\* reloadConfig: d.mu.Lock(), then d.scheduler.Stop() is called
ReloadLock(th) ==
    /\ Running
    /\ th \in Reloaders
    /\ pc[th] = "r_lock"
    /\ dmu = "free"
    /\ dmu' = th
    /\ starget' = [starget EXCEPT ![th] = CurSched]
    /\ pc' = [pc EXCEPT ![th] = "stoplock"]
    /\ UNCHANGED <<file, inputs, wevents, sigChan, ctx, dconfig, cwCurrent,
                   cwLast, cwStopped, cwLog, scheds, gates, task, rnew, result>>
    /\ UNCHANGED <<gvars, hvars, historyManager, outcome>>

\* Scheduler.Stop: s.mutex.Lock(), every ticker of s.tickers is stopped and deleted
StopLock(th) ==
    /\ Running
    /\ th \in Threads
    /\ pc[th] = "stoplock"
    /\ scheds[starget[th]].mutex = "free"
    /\ LET g == starget[th]
           stopped == {<<g, e[2]>> : e \in scheds[g].tickers}
       IN /\ scheds' = [scheds EXCEPT ![g].mutex = th, ![g].tickers = {}]
          /\ task' = [u \in Live |->
                        IF u \in stopped THEN [task[u] EXCEPT !.ticking = FALSE]
                        ELSE task[u]]
    /\ pc' = [pc EXCEPT ![th] = "stopwait"]
    /\ UNCHANGED <<file, inputs, wevents, sigChan, ctx, dconfig, dmu, cwCurrent,
                   cwLast, cwStopped, cwLog, gates, rnew, starget, result>>
    /\ UNCHANGED <<gvars, hvars, historyManager, outcome>>

\* reloadConfig: Stop returns from s.wg.Wait() and unlocks; the configuration,
\* the SyncManager and the Scheduler are replaced, the new scheduler is started
\* for the enabled entries, d.mu is unlocked
ReloadStopReturns(th) ==
    /\ Running
    /\ th \in Reloaders
    /\ pc[th] = "stopwait"
    /\ StopMayReturn(starget[th])
    /\ LET g == starget[th]
           new == rnew[th]
           n == Len(scheds) + 1
       IN /\ scheds' = Append([scheds EXCEPT ![g].mutex = "free"], StartedSched(new))
          /\ gates' = Append(gates, NewGate(new.Global.MaxConcurrentSyncs))
          /\ task' = [t \in DOMAIN StartedTasks(n, new) |->
                        [StartedTasks(n, new)[t] EXCEPT !.late = ctx]] @@ task
          /\ dconfig' = new
    /\ dmu' = "free"
    /\ pc' = [pc EXCEPT ![th] = Home(th)]
    /\ cwLog' = IF th = "watcher" THEN "reloaded" ELSE cwLog
    /\ UNCHANGED <<file, inputs, wevents, sigChan, ctx, cwCurrent, cwLast,
                   cwStopped, rnew, starget, result>>
    /\ UNCHANGED <<gvars, hvars, historyManager, outcome>>

\* shutdown: configWatcher.StopWatching(), d.cancel()
ShutdownBegin ==
    /\ Running
    /\ pc["shutdown"] = "begin"
    /\ cwStopped' = TRUE
    /\ ctx' = TRUE
    /\ pc' = [pc EXCEPT !["shutdown"] = "read"]
    /\ UNCHANGED <<file, inputs, wevents, sigChan, dconfig, dmu, cwCurrent,
                   cwLast, cwLog, scheds, gates, task, rnew, starget, result>>
    /\ UNCHANGED <<gvars, hvars, historyManager, outcome>>

\* shutdown: d.scheduler is read (without d.mu) for d.scheduler.Stop()
ShutdownRead ==
    /\ Running
    /\ pc["shutdown"] = "read"
    /\ starget' = [starget EXCEPT !["shutdown"] = CurSched]
    /\ pc' = [pc EXCEPT !["shutdown"] = "stoplock"]
    /\ UNCHANGED <<file, inputs, wevents, sigChan, ctx, dconfig, dmu, cwCurrent,
                   cwLast, cwStopped, cwLog, scheds, gates, task, rnew, result>>
    /\ UNCHANGED <<gvars, hvars, historyManager, outcome>>

\* shutdown: Stop returns from s.wg.Wait() and unlocks; shutdown returns nil
ShutdownStopReturns ==
    /\ Running
    /\ pc["shutdown"] = "stopwait"
    /\ StopMayReturn(starget["shutdown"])
    /\ scheds' = [scheds EXCEPT ![starget["shutdown"]].mutex = "free"]
    /\ pc' = [pc EXCEPT !["shutdown"] = "done"]
    /\ UNCHANGED <<file, inputs, wevents, sigChan, ctx, dconfig, dmu, cwCurrent,
                   cwLast, cwStopped, cwLog, gates, task, rnew, starget, result>>
    /\ UNCHANGED <<gvars, hvars, historyManager, outcome>>

\* Run: case err := <-shutdownComplete: return err
MainShutdownDone ==
    /\ pc["main"] = "shutwait"
    /\ pc["shutdown"] = "done"
    /\ result' = "nil"
    /\ pc' = [pc EXCEPT !["main"] = "returned"]
    /\ UNCHANGED <<file, inputs, wevents, sigChan, ctx, dconfig, dmu, cwCurrent,
                   cwLast, cwStopped, cwLog, scheds, gates, task, rnew, starget>>
    /\ UNCHANGED <<gvars, hvars, historyManager, outcome>>

\* Run: case <-time.After(10 * time.Second): return "shutdown timeout exceeded"
MainShutdownTimeout ==
    /\ pc["main"] = "shutwait"
    /\ result' = "timeout"
    /\ pc' = [pc EXCEPT !["main"] = "returned"]
    /\ UNCHANGED <<file, inputs, wevents, sigChan, ctx, dconfig, dmu, cwCurrent,
                   cwLast, cwStopped, cwLog, scheds, gates, task, rnew, starget>>
    /\ UNCHANGED <<gvars, hvars, historyManager, outcome>>

TaskIds == {<<g, i>> : g \in 1..(1 + MaxInputs), i \in 1..2}

\* Spec follows the daemon whose history is disabled (NewHistoryManager failed);
\* what performSync hands to the history manager is followed in SchedSpec
Init == DaemonInit /\ historyManager = "nil" /\ GitIdle /\ HistIdle

Next ==
    \/ \E t \in TaskIds : Tick(t)
    \/ \E t \in TaskIds : TaskInitialDelay(t)
    \/ \E t \in TaskIds : TaskTick(t)
    \/ \E t \in TaskIds : TaskCancelled(t)
    \/ \E t \in TaskIds : TaskAcquire(t)
    \/ \E t \in TaskIds : TaskSyncReturn(t)
    \/ \E t \in TaskIds : TaskCleanup(t)
    \/ \E c \in Configs : EditFile(c)
    \/ WatcherIgnored
    \/ WatcherDebounced
    \/ DebounceElapsed
    \/ WatcherEvent
    \/ \E sig \in {"HUP", "TERM"} : SendSignal(sig)
    \/ MainSighup
    \/ MainShutdownSignal
    \/ \E th \in Reloaders : ReloadLock(th)
    \/ \E th \in Threads : StopLock(th)
    \/ \E th \in Reloaders : ReloadStopReturns(th)
    \/ ShutdownBegin
    \/ ShutdownRead
    \/ ShutdownStopReturns
    \/ MainShutdownDone
    \/ MainShutdownTimeout

Spec == Init /\ [][Next]_vars

\* what the Go scheduler and the timers guarantee: a goroutine that can take
\* its next step takes it, a ticker fires, a select with a ready case is left,
\* a sync attempt returns. Edits of the file and signals are the environment's
\* and are not forced.
Fairness ==
    /\ \A t \in TaskIds :
        /\ WF_vars(Tick(t))
        /\ WF_vars(TaskInitialDelay(t))
        /\ WF_vars(TaskTick(t))
        /\ WF_vars(TaskCancelled(t))
        /\ WF_vars(TaskAcquire(t))
        /\ WF_vars(TaskSyncReturn(t))
        /\ WF_vars(TaskCleanup(t))
    /\ WF_vars(WatcherIgnored)
    /\ WF_vars(WatcherDebounced)
    /\ WF_vars(DebounceElapsed)
    /\ WF_vars(WatcherEvent)
    /\ WF_vars(MainSighup)
    /\ WF_vars(MainShutdownSignal)
    /\ \A th \in Reloaders : WF_vars(ReloadLock(th)) /\ WF_vars(ReloadStopReturns(th))
    /\ \A th \in Threads : WF_vars(StopLock(th))
    /\ WF_vars(ShutdownBegin)
    /\ WF_vars(ShutdownRead)
    /\ WF_vars(ShutdownStopReturns)
    /\ WF_vars(MainShutdownDone)
    /\ WF_vars(MainShutdownTimeout)

FairSpec == Init /\ [][Next]_vars /\ Fairness

\* the daemon with or without its history manager, its configuration file
\* left alone: the schedulers, their tasks, signals, reload and shutdown
SchedInit == DaemonInit /\ historyManager \in {"nil", "ok"} /\ GitIdle /\ HistIdle

SchedNext ==
    \/ \E t \in TaskIds : Tick(t)
    \/ \E t \in TaskIds : TaskInitialDelay(t)
    \/ \E t \in TaskIds : TaskTick(t)
    \/ \E t \in TaskIds : TaskCancelled(t)
    \/ \E t \in TaskIds : TaskAcquire(t)
    \/ \E t \in TaskIds : TaskSyncReturn(t)
    \/ \E t \in TaskIds : TaskCleanup(t)
    \/ \E sig \in {"HUP", "TERM"} : SendSignal(sig)
    \/ MainSighup
    \/ MainShutdownSignal
    \/ \E th \in Reloaders : ReloadLock(th)
    \/ \E th \in Threads : StopLock(th)
    \/ \E th \in Reloaders : ReloadStopReturns(th)
    \/ ShutdownBegin
    \/ ShutdownRead
    \/ ShutdownStopReturns
    \/ MainShutdownDone
    \/ MainShutdownTimeout

SchedSpec == SchedInit /\ [][SchedNext]_vars

\* the daemon started on a configuration file that lists one path twice
DupInit ==
    /\ file = CfgDup
    /\ inputs = 0 /\ wevents = 0 /\ sigChan = <<>>
    /\ ctx = FALSE /\ dconfig = file /\ dmu = "free"
    /\ cwCurrent = file /\ cwLast = FALSE /\ cwStopped = FALSE /\ cwLog = "none"
    /\ scheds = <<StartedSched(file)>>
    /\ gates = <<NewGate(file.Global.MaxConcurrentSyncs)>>
    /\ task = StartedTasks(1, file)
    /\ pc = [th \in Threads |->
                CASE th = "main" -> "loop" [] th = "watcher" -> "idle"
                  [] OTHER -> "none"]
    /\ rnew = [th \in Reloaders |-> file]
    /\ starget = [th \in Threads |-> 1]
    /\ result = "none"
    /\ outcome = NoOutcome
    /\ historyManager = "nil" /\ GitIdle /\ HistIdle

DupSpec == DupInit /\ [][Next]_vars

GitSpecInit == GitInit /\ DaemonIdle /\ HistIdle

GitSpec == GitSpecInit /\ [][GitNext]_vars

HistSpecInit == HistInit /\ GitIdle /\ DaemonIdle

HistSpec == HistSpecInit /\ [][HistNext]_vars

\* a history file of up to MaxQuery pieces, each a complete line or a line cut
\* short by a crash, or no file; nothing but GetHistory runs
QueryInit ==
    /\ LET Pieces == UNION {{Marshal(Entry(x[1], x[2])), <<Marshal(Entry(x[1], x[2]))[1]>>} :
                              x \in {<<1, "p1a">>, <<2, "p2a">>, <<3, "p1a">>, <<4, "p1b">>}}
           RECURSIVE Flat(_)
           Flat(ps) == IF ps = <<>> THEN <<>> ELSE Head(ps) \o Flat(Tail(ps))
       IN \E n \in 0..MaxQuery, present \in BOOLEAN :
            \E ps \in [1..n -> Pieces] :
                /\ present \/ n = 0
                /\ hino = IF present THEN <<Flat(ps)>> ELSE <<>>
                /\ hdir = [hist |-> IF present THEN 1 ELSE 0, old |-> 0, tmp |-> 0]
    /\ hflock = "free" /\ hmu = [p \in Procs |-> "free"]
    /\ hpc = [a \in Actors |-> "idle"]
    /\ hfd = [a \in Actors |-> 0] /\ hcur = [a \in Actors |-> 0]
    /\ hent = [a \in Actors |-> <<>>] /\ hbefore = [a \in Actors |-> <<>>]
    /\ hnid = 5 /\ hops = 0 /\ htorn = {} /\ hhist = NoHist
    /\ GitIdle /\ DaemonIdle

QueryNext == \E a \in Actors : GetHistory(a)

QuerySpec == QueryInit /\ [][QueryNext]_vars

-----------------------------------------------------------------------------
(* Properties of the SyncEngine (checked under GitSpec)                    *)

GitDone == gpc = "done"

RestoreFailed == \E i \in 1..Len(glog) : glog[i].op = "restore" /\ ~glog[i].ok

SwitchedToTarget ==
    \E i \in 1..Len(glog) :
        glog[i] = GitCall("checkout", grepo.TargetBranch, TRUE)

MentionsUncommitted(err) ==
    \E i \in 1..Len(err) : err[i] \in {ErrUncommitted[1], ErrCannotSwitch[1]}

OnMainCleanTargetDevelop ==
    /\ grepo.BranchStrategy = "specific"
    /\ grepo.TargetBranch = "develop"
    /\ ginit = [branch |-> "main", dirty |-> FALSE]

\* C3 (as stated): a repository on main with a clean tree and target branch
\* develop is checked out on main again whenever an attempt has returned.
C3_EndsOnMain == (GitDone /\ OnMainCleanTargetDevelop) => gbranch = "main"

\* C3 (amended): a repository on main with a clean tree and target branch
\* develop is on main again when the attempt returns, whether the push/pull on
\* develop succeeded or failed, unless the switch-back checkout itself failed;
\* in that case the failure is only logged and the repository is left on develop.
C3_EndsOnMainUnlessRestoreFailed ==
    (GitDone /\ OnMainCleanTargetDevelop) =>
        IF RestoreFailed THEN gbranch = "develop" ELSE gbranch = "main"

\* C3 witness: the attempt switched to develop, the operation there failed,
\* and the attempt returned with the repository back on main.
C3_Witness ==
    /\ GitDone /\ OnMainCleanTargetDevelop
    /\ SwitchedToTarget
    /\ gerr \in {ErrPush, ErrPull}
    /\ gbranch = "main"

DirtyOffTarget ==
    /\ grepo.BranchStrategy = "specific"
    /\ ginit.branch # grepo.TargetBranch
    /\ ginit.dirty

\* C4: under strategy specific with the current branch different from the
\* target and a dirty tree, a returned attempt has made no checkout, push, pull
\* or fetch, has left the repository on its original branch and has failed;
\* when the attempt got as far as seeing the dirty tree (the direction is one
\* SyncRepository dispatches and no open/status/head call failed and the
\* context was not cancelled) its error is an uncommitted-changes message,
\* whatever safety-checks and force-push are.
C4_DirtyTreeNoSwitch ==
    (GitDone /\ DirtyOffTarget) =>
        /\ glog = <<>>
        /\ gbranch = ginit.branch
        /\ gerr # NoErr
        /\ (~genvfail /\ DispatchFirst(grepo.Direction) # "invalid")
               => MentionsUncommitted(gerr)

\* C4 witness: force-push lets the attempt through the safety checks and the
\* branch-switch protocol itself refuses the dirty tree.
C4_Witness ==
    /\ GitDone /\ DirtyOffTarget
    /\ grepo.SafetyChecks /\ grepo.ForcePush
    /\ gerr = ErrCannotSwitch
    /\ glog = <<>>

\* C23: in the branch-switch protocol a successful checkout of the target is
\* followed by at most one push/pull call and then by exactly one checkout of
\* the branch recorded before it, whatever the operation returned; a restore
\* happens only after a successful checkout; after a failed checkout nothing but
\* the second checkout attempt follows; no checkout happens while the
\* repository is on the target branch, and none outside strategy specific
C23_SwitchOperateRestore ==
    LET Switch(i) == glog[i].op \in {"checkout", "restore"}
        Later(i) == {j \in (i + 1)..Len(glog) : Switch(j)}
        Earlier(i) == {j \in 1..(i - 1) : Switch(j)}
        Min(S) == CHOOSE x \in S : \A y \in S : x <= y
        Max(S) == CHOOSE x \in S : \A y \in S : x >= y
    IN /\ \A i \in 1..Len(glog) :
            /\ (glog[i].op = "checkout" /\ glog[i].ok) =>
                  IF Later(i) = {}
                  THEN /\ gpc \in {"op", "restore"} /\ gswitched
                       /\ Len(glog) - i <= 1
                  ELSE /\ glog[Min(Later(i))].op = "restore"
                       /\ glog[Min(Later(i))].branch = ginit.branch
                       /\ Min(Later(i)) - i <= 2
            /\ glog[i].op = "restore" =>
                  /\ Earlier(i) # {}
                  /\ glog[Max(Earlier(i))].op = "checkout"
                  /\ glog[Max(Earlier(i))].ok
            /\ (glog[i].op = "checkout" /\ ~glog[i].ok /\ i < Len(glog)) =>
                  glog[i + 1].op = "checkout"
            /\ Switch(i) => grepo.BranchStrategy = "specific"
       /\ ginit.branch = grepo.TargetBranch => \A i \in 1..Len(glog) : ~Switch(i)
       /\ gpc \in {"wbsStatus", "checkout"} => gbranch # grepo.TargetBranch
       /\ (GitDone \/ gpc = "push") => ~gswitched

\* C23: direction both on main with target develop: checkout, pull, restore,
\* then checkout, a push that fails, and the restore all the same
C23_Witness ==
    /\ GitDone /\ OnMainCleanTargetDevelop
    /\ Len(glog) = 6
    /\ glog[1] = GitCall("checkout", "develop", TRUE)
    /\ glog[2].op = "pull" /\ glog[3] = GitCall("restore", "main", TRUE)
    /\ glog[4] = GitCall("checkout", "develop", TRUE)
    /\ glog[5].op = "push" /\ ~glog[5].ok
    /\ glog[6] = GitCall("restore", "main", TRUE)

\* C24: under strategy specific the result of each push/pull sub-protocol whose
\* operation ran is the operation's own result, whether the switch-back
\* succeeded or failed
C24_StatusIsOperationResult ==
    grepo.BranchStrategy = "specific" =>
        \A i \in 1..Len(gsub) :
            gsub[i].res # "none" =>
                gsub[i].err = IF gsub[i].res \in {"ok", "uptodate"} THEN NoErr
                              ELSE IF gsub[i].phase = "push" THEN ErrPush ELSE ErrPull

\* C24: the push on the target branch succeeded, the switch-back failed, and
\* the attempt returned success
C24_Witness ==
    /\ GitDone /\ SwitchedToTarget /\ RestoreFailed
    /\ grepo.Direction = "push" /\ gsub[1].res = "ok"
    /\ gerr = NoErr

\* C31: under strategy main every push and every pull of an attempt is made on
\* branch main, whatever branch is checked out; under strategy current every
\* push and every pull is made on the checked-out branch
C31_MainStrategyOperatesOnMain ==
    \A i \in 1..Len(glog) :
        glog[i].op \in {"push", "pull"} =>
            /\ grepo.BranchStrategy = "main" => glog[i].branch = "main"
            /\ grepo.BranchStrategy = "current" => glog[i].branch = ginit.branch

\* C29: validation keeps unknown strategies away from the dispatch: an attempt
\* run with an entry that validateConfig accepts never returns the
\* invalid-strategy error of getRefSpecs
C29_UnknownStrategyRejected ==
    (GitDone /\ RepoEntryValid(grepo)) => gerr # ErrStrategy

\* C6 (as stated): validation accepts a direction if and only if the
\* SyncEngine dispatches it: an entry whose direction is dispatched passes the
\* direction check of validateConfig, and an attempt run with an accepted
\* entry never returns the invalid-direction error.
C6_ValidationMatchesDispatch ==
    /\ DispatchFirst(grepo.Direction) # "invalid" => RepoEntryValid(grepo)
    /\ (GitDone /\ RepoEntryValid(grepo)) => gerr # ErrDirection

\* the push, pull and fetch calls the attempt has made
RemoteCalls == {i \in 1..Len(glog) : glog[i].op \in {"push", "pull", "fetch"}}

\* safety checks are on, the tree was dirty when the attempt started, the
\* direction is one SyncRepository dispatches and no open/status/head call
\* failed nor was the context cancelled
DirtyWithSafety ==
    /\ grepo.SafetyChecks
    /\ ginit.dirty
    /\ DispatchFirst(grepo.Direction) # "invalid"
    /\ ~genvfail

ForcedPush == grepo.ForcePush /\ grepo.Direction \in {"push", "both"}

\* C16 (as stated): with safety checks on and a dirty tree the attempt returns
\* an uncommitted-changes error without any push, pull or fetch, unless
\* force-push is set and the direction includes push.
C16_DirtyTreeAbortsUnlessForcedPush ==
    (GitDone /\ DirtyWithSafety /\ ~ForcedPush) =>
        (MentionsUncommitted(gerr) /\ RemoteCalls = {})

\* C17: for direction both the pull sub-protocol is the first to run and no
\* push call precedes a pull or fetch call; when the pull sub-protocol returns
\* an error the attempt returns it (wrapped as "pull failed") and nothing of
\* the push sub-protocol runs; when it returns nil the push sub-protocol runs
\* and the attempt returns the push's result.
C17_PushIffPullSucceeded ==
    grepo.Direction = "both" =>
        /\ \A i \in 1..Len(glog), j \in 1..Len(glog) :
            (i < j /\ glog[i].op = "push") => glog[j].op \notin {"pull", "fetch"}
        /\ gsub # <<>> => gsub[1].phase = "pull"
        /\ GitDone =>
            IF gsub = <<>> THEN glog = <<>>
            ELSE IF gsub[1].err # NoErr
            THEN /\ Len(gsub) = 1
                 /\ gerr = WrapPull(gsub[1].err)
                 /\ \A i \in 1..Len(glog) : glog[i].op # "push"
            ELSE /\ Len(gsub) = 2
                 /\ gsub[2].phase = "push"
                 /\ gerr = gsub[2].err

\* C17 witness: the pull succeeded, the push failed, and the attempt returned
\* the push's failure.
C17_Witness ==
    /\ GitDone /\ grepo.Direction = "both"
    /\ Len(gsub) = 2
    /\ gsub[1].err = NoErr /\ gsub[1].res = "ok"
    /\ gsub[2].err = ErrPush
    /\ gerr = ErrPush

\* C20 (as stated): a sub-protocol whose git operation answered "already up
\* to date" or "empty remote repository" returns no error.
C20_BenignResultsSucceed ==
    \A i \in 1..Len(gsub) :
        gsub[i].res \in {"uptodate", "empty"} => gsub[i].err = NoErr

-----------------------------------------------------------------------------
(* Properties of the daemon (checked under Spec and FairSpec)              *)

RECURSIVE SumSyn(_)
SumSyn(ts) ==
    IF ts = {} THEN 0
    ELSE LET t == CHOOSE x \in ts : TRUE
         IN task[t].syn + SumSyn(ts \ {t})

\* the tasks started under gate g
TasksOf(g) == {t \in Live : t[1] = g}

\* C1: for every gate, the number of gitOps.SyncRepository calls in progress
\* among the tasks started under it is the number of permits held and never
\* exceeds the gate's max_concurrent_syncs.
C1_SyncsWithinGate ==
    \A g \in 1..Len(gates) :
        /\ SumSyn(TasksOf(g)) = gates[g].held
        /\ gates[g].held <= gates[g].cap

\* C1 witness: under a gate of capacity 1 one repository's sync is running
\* while another repository's task is blocked on the semaphore.
C1_Witness ==
    \E t \in Live, u \in Live :
        /\ t # u /\ t[1] = u[1]
        /\ gates[t[1]].cap = 1
        /\ task[t].syn = 1
        /\ task[u].acq = 1

InvalidChangeProcessed ==
    /\ pc["watcher"] = "idle"
    /\ wevents' = wevents - 1
    /\ ~cwStopped /\ ~cwLast
    /\ ~validateConfig(file)

\* C5: a change that fails validation is logged and dropped: currentConfig is
\* unchanged, reloadConfig is not entered, and the daemon's configuration,
\* schedulers, gates and tasks are what they were.
C5_InvalidChangeRejected ==
    [][InvalidChangeProcessed =>
        /\ cwLog' = "invalid"
        /\ cwCurrent' = cwCurrent
        /\ pc'["watcher"] = "idle"
        /\ UNCHANGED <<rnew, dconfig, dmu, scheds, gates, task>>]_vars

\* C5 witness: an invalid file has been processed and rejected while the
\* scheduler of the previous configuration has tasks.
C5_Witness ==
    /\ cwLog = "invalid"
    /\ ~validateConfig(file)
    /\ cwCurrent # file /\ dconfig = cwCurrent
    /\ pc["watcher"] = "idle"
    /\ TasksOf(CurSched) # {}

\* C25: a reload started by SIGHUP is validated like one started by the
\* watcher: the signal handler replaces the configuration, the gate and the
\* scheduler only by those of a configuration that passes validateConfig, and
\* an invalid file leaves them as they were
C25_SighupReloadValidated ==
    [][(pc["main"] = "stopwait" /\ pc'["main"] = "loop") =>
          \/ validateConfig(dconfig')
          \/ UNCHANGED <<dconfig, gates, task>> /\ Len(scheds') = Len(scheds)]_vars

\* C28: when every change event of a burst has been handled and the debounce
\* delay has passed, with no reload or signal pending, the live configuration is
\* the content of the last write (a valid one)
C28_BurstAppliesLastWrite ==
    (/\ pc["watcher"] = "idle" /\ wevents = 0 /\ ~cwLast /\ ~cwStopped
     /\ pc["main"] = "loop" /\ sigChan = <<>>
     /\ validateConfig(file)) => dconfig = file

\* C33: every gate the daemon builds, from the initial load or from a reload,
\* has a capacity of at least 1, so a task that waits for a permit waits at a
\* gate that can give one
C33_GateHasCapacity ==
    \A t \in Live : task[t].acq > 0 => gates[t[1]].cap >= 1

\* C34: once a reload has started a new scheduler, every task of an earlier
\* scheduler has exited: it is in no attempt, waits for no permit and holds
\* none, so only tasks of the newest scheduler run attempts
C34_OldAndNewNeverOverlap ==
    /\ \A t \in Live :
        t[1] < Len(scheds) =>
            task[t].pc = "done" /\ task[t].acq = 0 /\ task[t].syn = 0
    /\ \A g \in 1..Len(gates) : g < Len(gates) => gates[g].held = 0
    /\ Len(gates) = Len(scheds)

\* C34: a reload has replaced a scheduler that had tasks; they have exited and
\* a task of the new scheduler has been started
C34_Witness ==
    /\ Len(scheds) = 2
    /\ \E t \in Live : t[1] = 1 /\ task[t].pc = "done"
    /\ \E t \in Live : t[1] = 2 /\ task[t].pc = "delay"

C36_OneTaskPerPath ==
    /\ [](\A t \in Live, u \in Live :
            (/\ t # u /\ t[1] = u[1]
             /\ task[t].repo.Path = task[u].repo.Path) =>
                ~(/\ task[t].pc \in {"insync", "wait"}
                  /\ task[u].pc \in {"insync", "wait"}))
    /\ [][\A t \in TaskIds :
            (/\ t \in Live /\ task[t].pc = "cleanup" /\ task'[t].pc = "done") =>
                scheds[t[1]].tickers \ scheds'[t[1]].tickers
                    \subseteq {<<task[t].repo.Path, t[2]>>}]_vars

\* C7 (as stated): validation rejects every configuration with an entry whose
\* interval is outside [30, 86400], and no task is ever scheduled with such an
\* interval.
C7_IntervalRangeEnforced ==
    /\ \A c \in Configs :
        validateConfig(c) =>
            \A i \in 1..Len(c.Repositories) :
                validateConfigCombination(c.Repositories[i].Interval)
    /\ \A t \in Live : validateConfigCombination(task[t].repo.Interval)

\* the process is gone: Run has returned
Exited == ~Running

\* C8 (as stated): every call of Scheduler.Stop returns.
C8_StopReturns ==
    \A th \in Threads :
        (pc[th] = "stoplock") ~> (pc[th] \notin {"stoplock", "stopwait"} \/ Exited)

\* C9 (as stated): every reload trigger carrying a valid configuration
\* completes: reloadConfig returns with the new scheduler started.
C9_ReloadCompletes ==
    \A th \in Reloaders :
        (pc[th] = "r_lock" /\ validateConfig(rnew[th]))
            ~> ((pc[th] = Home(th) /\ dconfig = rnew[th]) \/ Exited)

\* C10 (as stated): once a shutdown signal has been delivered to the daemon's
\* signal channel, Run returns.
C10_RunReturnsAfterShutdownSignal ==
    (sigChan # <<>> /\ Head(sigChan) = "TERM") ~> Exited

\* a step in which the attempt of task t completes: SyncRepository has returned
\* and performSync returns to the loop
AttemptCompletes(t) ==
    /\ t \in Live /\ t \in DOMAIN task'
    /\ task'[t].syn = task[t].syn - 1

\* the step hands RecordSync one outcome for the entry of task t, with status
\* success exactly when SyncRepository returned nil, failed and the error text
\* otherwise
RecordedFor(t) ==
    /\ outcome' # NoOutcome /\ outcome' # outcome
    /\ outcome'.path = task[t].repo.Path
    /\ outcome'.status = (IF outcome'.err = NoErr THEN "success" ELSE "failed")
    /\ outcome'.msg = outcome'.err

\* the recorded outcome is of an entry that is enabled
RecordedIsEnabled ==
    outcome # NoOutcome =>
        \E i \in Enabled(dconfig) : dconfig.Repositories[i].Path = outcome.path

\* C15 as stated: every completed attempt records exactly one outcome, whose
\* status is success exactly when the attempt returned no error; nothing else
\* records one; none is recorded for a disabled entry
C15_OneOutcomePerAttempt ==
    /\ [][/\ \A t \in TaskIds : AttemptCompletes(t) => RecordedFor(t)
          /\ outcome' # outcome => \E t \in TaskIds : AttemptCompletes(t)]_vars
    /\ []RecordedIsEnabled

\* C15, amended: the same when the daemon has a history manager; without one
\* (NewHistoryManager failed at startup) nothing is recorded
C15_OneOutcomePerAttemptWithHistory ==
    /\ [][/\ \A t \in TaskIds :
                AttemptCompletes(t) =>
                    IF historyManager = "nil" THEN outcome' = outcome
                    ELSE RecordedFor(t)
          /\ outcome' # outcome => \E t \in TaskIds : AttemptCompletes(t)]_vars
    /\ []RecordedIsEnabled

\* C15: the second outcome handed to RecordSync is of a failed attempt
C15_Witness ==
    /\ historyManager = "ok" /\ outcome # NoOutcome
    /\ outcome.seq = 1 /\ outcome.status = "failed" /\ outcome.msg = ErrPull

\* C21 (as stated): while an attempt of a task is running, no tick of its
\* ticker is queued for it
C21_OverrunTicksNotQueued ==
    [][\A t \in TaskIds :
        (t \in Live /\ t \in DOMAIN task' /\ task[t].pc = "insync") =>
            task'[t].tick <= task[t].tick]_vars

\* C21, amended: the ticker keeps at most one tick, so of the ticks that fall
\* due during an attempt one is kept and the others are dropped; the attempts of
\* a task never overlap; the kept tick starts the next attempt only after the
\* running one has returned, and is used up by it
C21_OverrunKeepsOneTick ==
    /\ [](\A t \in Live :
            /\ task[t].tick \in {0, 1}
            /\ task[t].acq + task[t].syn <= 1
            /\ task[t].acq + task[t].syn = 1 <=> task[t].pc = "insync")
    /\ [][\A t \in TaskIds :
            (t \in Live /\ t \in DOMAIN task' /\ task[t].pc = "wait"
                /\ task'[t].pc = "insync") =>
                /\ task[t].tick = 1 /\ task'[t].tick = 0
                /\ task[t].acq = 0 /\ task[t].syn = 0]_vars

\* C21: an attempt that is not the first of the daemon is running and a tick of
\* its ticker has been kept meanwhile
C21_Witness ==
    /\ outcome # NoOutcome
    /\ \E t \in Live :
        /\ task[t].repo.Path = outcome.path
        /\ task[t].pc = "insync" /\ task[t].syn = 1 /\ task[t].tick = 1

\* C26 (as stated): from the moment a reload is triggered until it returns, an
\* attempt that is in flight stays in flight until it completes, and when it
\* completes its outcome is recorded, once
C26_InFlightSurvivesReload ==
    [][LET Reloading == \E th \in Reloaders : pc[th] \in {"r_lock", "stoplock", "stopwait"}
           InFlight(t) == t \in Live /\ task[t].pc = "insync"
       IN Reloading =>
            /\ \A t \in TaskIds :
                InFlight(t) =>
                    /\ t \in DOMAIN task'
                    /\ task'[t].repo = task[t].repo
                    /\ \/ /\ task'[t].pc = "insync"
                          /\ task'[t].acq + task'[t].syn = 1
                          /\ task'[t].syn >= task[t].syn
                       \/ AttemptCompletes(t) /\ RecordedFor(t)
            /\ outcome' # outcome => \E t \in TaskIds : AttemptCompletes(t)]_vars

\* C26, amended: the same, the outcome being recorded when the daemon has a
\* history manager; without one nothing is recorded for any attempt (C15)
C26_InFlightSurvivesReloadWithHistory ==
    [][LET Reloading == \E th \in Reloaders : pc[th] \in {"r_lock", "stoplock", "stopwait"}
           InFlight(t) == t \in Live /\ task[t].pc = "insync"
       IN Reloading =>
            /\ \A t \in TaskIds :
                InFlight(t) =>
                    /\ t \in DOMAIN task'
                    /\ task'[t].repo = task[t].repo
                    /\ \/ /\ task'[t].pc = "insync"
                          /\ task'[t].acq + task'[t].syn = 1
                          /\ task'[t].syn >= task[t].syn
                       \/ /\ AttemptCompletes(t)
                          /\ task'[t].pc = "wait"
                          /\ IF historyManager = "nil" THEN outcome' = outcome
                             ELSE RecordedFor(t)
            /\ outcome' # outcome => \E t \in TaskIds : AttemptCompletes(t)]_vars

\* C26: the signal handler's reload has stopped the tickers and waits in Stop
\* while an attempt is running, one outcome having been recorded before
C26_Witness ==
    /\ pc["main"] = "stopwait" /\ historyManager = "ok" /\ outcome # NoOutcome
    /\ \E t \in Live : task[t].pc = "insync" /\ task[t].syn = 1 /\ ~task[t].ticking

\* C27: once the context is cancelled, a task that is at a wait point (the
\* initial delay or the tick wait) starts no attempt, even when its timer has
\* fired or a tick is pending: it stays there or leaves through its cleanup
C27_NoAttemptAfterCancel ==
    [][\A t \in TaskIds :
        (ctx /\ t \in Live /\ task[t].pc \in {"delay", "wait"}) =>
            /\ t \in DOMAIN task'
            /\ task'[t].pc \in {task[t].pc, "cleanup"}
            /\ task'[t].acq = task[t].acq /\ task'[t].syn = task[t].syn]_vars

\* C32: the permits held of every gate are as many as the syncs in progress
\* behind it, each task having at most one; a gate none of whose tasks is inside
\* a sync holds no permit; a sync that returns, with or without an error, gives
\* back exactly its permit
C32_PermitsNeverLeak ==
    /\ [](\A g \in 1..Len(gates) :
            /\ \A t \in Live : task[t].syn \in {0, 1}
            /\ gates[g].held = Cardinality({t \in Live : t[1] = g /\ task[t].syn = 1}))
    /\ [][\A t \in TaskIds :
            AttemptCompletes(t) =>
                /\ gates'[t[1]].held = gates[t[1]].held - 1
                /\ \A g \in 1..Len(gates) : g # t[1] => gates'[g] = gates[g]]_vars

\* C32: a sync has failed and its permit is back: the gate holds none and no
\* task is inside a sync
C32_Witness ==
    /\ outcome # NoOutcome /\ outcome.status = "failed" /\ outcome.seq = 1
    /\ \A g \in 1..Len(gates) : gates[g].held = 0
    /\ \A t \in Live : task[t].syn = 0

\* C22: every completed attempt hands its outcome (path, direction, status,
\* error text) to the notification manager as well as to the history manager,
\* and the status handed over is success exactly when SyncRepository returned nil
C22_OutcomeNotified ==
    [][\A t \in TaskIds :
        (AttemptCompletes(t) /\ historyManager = "ok") =>
            /\ RecordedFor(t)
            /\ outcome'.direction = task[t].repo.Direction
            /\ \E i \in 1..Len(outcome'.calls) :
                   outcome'.calls[i] = "SendSyncNotification"]_vars

\* C18: a completed attempt, failed ones included, changes no other task and
\* no scheduler; its own task is back in its loop with its ticker and pending
\* tick as they were and no further attempt started; an attempt starts only
\* after the initial delay or by taking a tick
C18_FailureIsIsolated ==
    /\ [][\A t \in TaskIds :
            AttemptCompletes(t) =>
                /\ \A u \in Live \ {t} : u \in DOMAIN task' /\ task'[u] = task[u]
                /\ scheds' = scheds
                /\ task[t].pc = "insync" /\ task'[t].pc = "wait"
                /\ task'[t].acq = task[t].acq
                /\ task'[t].tick = task[t].tick
                /\ task'[t].ticking = task[t].ticking]_vars
    /\ [][\A t \in TaskIds :
            (t \in Live /\ t \in DOMAIN task' /\ task'[t].acq > task[t].acq) =>
                \/ task[t].pc = "delay"
                \/ task[t].pc = "wait" /\ task[t].tick = 1 /\ task'[t].tick = 0]_vars

\* C18: after a failed attempt of one repository, its task waits for its next
\* tick while the task of another repository is inside an attempt
C18_Witness ==
    /\ outcome # NoOutcome /\ outcome.status = "failed"
    /\ \E t, u \in Live :
        /\ task[t].repo.Path = outcome.path /\ task[t].pc = "wait" /\ task[t].tick = 0
        /\ task[u].repo.Path # outcome.path /\ task[u].syn > 0

\* C19: when RecordSync fails to write the entry, the status handed to it and
\* the final log line are those of the attempt's own result, and the task is
\* back in its loop with its ticker running
C19_HistoryFailureOnlyLogged ==
    [][\A t \in TaskIds :
        (AttemptCompletes(t) /\ historyManager = "ok" /\ ~outcome'.stored) =>
            /\ outcome'.status = (IF outcome'.err = NoErr THEN "success" ELSE "failed")
            /\ outcome'.log = (IF outcome'.err = NoErr
                               THEN "Sync completed successfully" ELSE "Sync failed")
            /\ task'[t].pc = "wait"
            /\ task'[t].ticking = task[t].ticking]_vars

\* C19: a successful attempt whose entry could not be written; its task has
\* gone on to its next attempt
C19_Witness ==
    /\ outcome # NoOutcome /\ ~outcome.stored
    /\ outcome.err = NoErr /\ outcome.log = "Sync completed successfully"
    /\ \E t \in Live : task[t].repo.Path = outcome.path /\ task[t].syn > 0

-----------------------------------------------------------------------------
(* Properties of the HistoryStore                                          *)

\* C11: when threads of two processes (and two threads of one process) append
\* concurrently, every line of every file of the store is one complete record;
\* the only other lines are the line being written under the lock and what an
\* I/O error or a crash left of a write
C11_LinesAreCompleteRecords ==
    \A i \in 1..Len(hino) : \A k \in 1..Len(Lines(hino[i])) :
        LET line == Lines(hino[i])[k]
            \* the line a thread is in the middle of writing
            InProgress ==
                \E a \in Actors : /\ hpc[a] = "write2" /\ hfd[a] = i
                                  /\ line = <<Marshal(Entry(hcur[a], a))[1]>>
                                  /\ k = Len(Lines(hino[i]))
            \* a line holding a part of a write that failed or was cut by a crash
            Torn == \E j \in 1..Len(line) : line[j].id \in htorn
        IN Parses(line) \/ InProgress \/ Torn

\* C11: a thread of one process is in the middle of its write while a thread
\* of the other process waits for the lock, after an earlier append
C11_Witness ==
    \E a, b \in Actors :
        /\ Proc(a) # Proc(b)
        /\ hpc[a] = "write2" /\ hflock = a /\ hpc[b] = "lock"
        /\ \E id \in hhist.app : id >= 3 /\ id \notin htorn

\* C12: once the history file is over the size threshold it is rotated, once,
\* before the next record is appended: no append starts on a file that is over
\* the threshold, a rotation moves only a file that is over the threshold, and
\* every record appended since the previous rotation is in the .old backup or
\* in the current file
C12_RotationBeforeNextAppend ==
    LET \* a thread has written the first part of its line to the history file
        AppendingTo(a) == hpc[a] = "write2" /\ hdir["hist"] = hfd[a]
        \* a thread is between the size check that asked for a rotation and
        \* the rename
        Rotating(a) == hpc[a] \in {"remove", "rename"}
        \* the file under name n holds the complete line of entry id
        Has(n, id) == \E k \in 1..Len(Content(n)) :
                          Content(n)[k].id = id /\ Content(n)[k].part = 2
    IN /\ \A a \in Actors : AppendingTo(a) => Len(hino[hfd[a]]) - 1 <= MaxFileSize
       /\ \A a \in Actors : Rotating(a) => shouldRotateFile
       /\ hhist.clean = 0 => \A id \in hhist.since : Has("old", id) \/ Has("hist", id)

\* C13: after CleanOldEntries has replaced the history file, the file holds
\* exactly the records it held just before whose timestamp is inside the
\* retention window, in their order: none of them has been removed
C13_CleanupKeepsRetentionWindow ==
    hhist.clean > 0 => hhist.post = MarshalAll(validEntries(getAllEntries(hhist.pre)))

\* C37: when no operation is under way and no rotation has taken place, every
\* record that was appended completely and whose timestamp is inside the
\* retention window is in the history file, whatever CleanOldEntries calls
\* ran meanwhile in other processes
C37_CleanupKeepsConcurrentRecord ==
    (/\ hhist.rot = 0
     /\ \A a \in Actors : hpc[a] \in {"idle", "dead"}) =>
        \A id \in hhist.app :
            Timestamp(id) > Now - RetentionDays =>
                \E k \in 1..Len(Content("hist")) :
                    Content("hist")[k].id = id /\ Content("hist")[k].part = 2

\* C38: while no cleanup has rewritten the file and at most one rotation has
\* moved it, the .old backup and the current file together hold every record
\* appended so far: those appended before the rotation are in the backup,
\* those appended after it in the current file
C38_RotationKeepsRecords ==
    (hhist.clean = 0 /\ hhist.rot <= 1) =>
        \A id \in hhist.app :
            \E n \in {"old", "hist"} :
                \E k \in 1..Len(Content(n)) :
                    Content(n)[k].id = id /\ Content(n)[k].part = 2

C14_RewriteIsAtomic ==
    [][\A a \in Actors :
          \* a step of rewriteHistoryFile in thread a, its failure, or the
          \* crash of its process
          (/\ hpc[a] \in {"clock", "cwrite"}
           /\ <<hpc[a], hcur[a], hfd[a]>>' # <<hpc[a], hcur[a], hfd[a]>>) =>
          IF hdir'["hist"] # hdir["hist"]
          THEN /\ hdir["tmp"] # 0 /\ hdir'["hist"] = hdir["tmp"] /\ hdir'["tmp"] = 0
               /\ hino'[hdir'["hist"]] = MarshalAll(hent[a])
               /\ hent[a] = validEntries(hbefore[a])
          ELSE hdir["hist"] # 0 => hino'[hdir["hist"]] = hino[hdir["hist"]]]_vars

\* C14: the process crashed after creating the temp file and before writing
\* the entry to keep; the history file still holds both of its records
C14_Witness ==
    /\ \E a \in Actors : hpc[a] = "dead"
    /\ hhist.clean = 0 /\ hhist.rot = 0
    /\ hdir["tmp"] # 0 /\ Content("tmp") = <<>>
    /\ Content("hist") = Marshal(Entry(1, "p1a")) \o Marshal(Entry(2, "p2a"))

\* C30: what GetHistory(limit, repoFilter, failedOnly) returns is made of
\* records of the history file that match the filters, each taken once; it is
\* ordered newest first; it holds all the matching records, or the first limit
\* of them when limit > 0 and there are more, none of those left out being newer
\* than one returned; it is empty when the file does not exist; the call leaves
\* the history file as it was
C30_QueryReturnsNewestMatching ==
    /\ [](hhist.q # <<>> =>
            LET q == hhist.q
                all == getAllEntries(Content("hist"))
                Ts(e) == Unmarshal(e).Timestamp
                M == {i \in 1..Len(all) :
                        /\ q.repoFilter # "" => Unmarshal(all[i]).RepoPath = q.repoFilter
                        /\ q.failedOnly => Unmarshal(all[i]).Status = "failed"}
                m == Len(q.res)
            IN /\ m = IF q.limit > 0 /\ Cardinality(M) > q.limit
                      THEN q.limit ELSE Cardinality(M)
               /\ \E f \in [1..m -> M] :
                    /\ \A j, k \in 1..m : j # k => f[j] # f[k]
                    /\ \A k \in 1..m : q.res[k] = all[f[k]]
                    /\ \A i \in M \ {f[k] : k \in 1..m} :
                            \A k \in 1..m : Ts(all[i]) <= Ts(q.res[k])
               /\ \A k \in 1..(m - 1) : Ts(q.res[k]) >= Ts(q.res[k + 1])
               /\ hdir["hist"] = 0 => q.res = <<>>)
    /\ [][hhist'.q # hhist.q => UNCHANGED <<hino, hdir>>]_vars

\* C30: the file holds an old record followed by two recent ones; GetHistory
\* with limit 2 and no filter has returned the two recent ones
C30_Witness ==
    /\ hhist.q # <<>>
    /\ hhist.q.limit = 2 /\ hhist.q.repoFilter = "" /\ ~hhist.q.failedOnly
    /\ getAllEntries(Content("hist")) = <<Entry(1, "p1a"), Entry(2, "p2a"), Entry(3, "p1a")>>
    /\ hhist.q.res = <<Entry(3, "p1a"), Entry(2, "p2a")>>

====
